---- MODULE Spec2Model ----
(***************************************************************************)
(* A model of octopus.lib.dataobj: the path engine of DataObj (get, set,   *)
(* delete, delete-from-list on dotted paths), the construct engine and the *)
(* attribute protocol of DataObj.                                          *)
(*                                                                         *)
(* Python values are tagged records.  A dict or a list carries an `id`,    *)
(* the identity of the Python object: two containers with the same id are  *)
(* the same object, so a write through one is seen through the other.      *)
(* A dotted path "a.b.c" is the sequence of its segments <<"a","b","c">>,  *)
(* which is what path.split(".") yields.  An operation returns a record    *)
(* [exc, val, data]: the exception it raised ("none" if it returned), the  *)
(* value it returned and the document it leaves behind.                    *)
(***************************************************************************)
EXTENDS Integers, Sequences, FiniteSets, TLC

VARIABLES
    data,       \* DataObj.data, the raw document of the model instance
    raw,        \* the caller's document handed to the constructor, as it is now
    pre,        \* the document as it was before the last operation
    call,       \* the last operation and its arguments
    ret,        \* what the last operation returned or raised
    attrs       \* the instance attributes of the model other than data

vars == <<data, raw, pre, call, ret, attrs>>

----------------------------------------------------------------------------
(* Python values *)

None == [t |-> "null"]
Str(s) == [t |-> "str", s |-> s]
Num(n) == [t |-> "int", n |-> n]
Bool(b) == [t |-> "bool", b |-> b]
Dict(id, m) == [t |-> "dict", id |-> id, m |-> m]
List(id, l) == [t |-> "list", id |-> id, l |-> l]

NoKeys == [k \in {} |-> None]
NoId == <<>>

IsDict(v) == v.t = "dict"
IsList(v) == v.t = "list"
IsEmptyDict(v) == v.t = "dict" /\ DOMAIN v.m = {}

Put(m, k, v) == [x \in (DOMAIN m) \cup {k} |-> IF x = k THEN v ELSE m[x]]
Drop(m, ks) == [x \in (DOMAIN m) \ ks |-> m[x]]
Front(s) == SubSeq(s, 1, Len(s) - 1)
IdxStr(i) == "[" \o ToString(i) \o "]"

(* What an operation hands back. *)
Return(v, d) == [exc |-> "none", val |-> v, data |-> d]
Raise(e, d) == [exc |-> e, val |-> None, data |-> d]

(* An object graph with the shape and content of v in which every         *)
(* container has an identity of its own, derived from the identity `id`    *)
(* of the root.                                                            *)
RECURSIVE Label(_, _)
Label(v, id) ==
    CASE v.t = "dict" ->
            Dict(id, [k \in DOMAIN v.m |-> Label(v.m[k], Append(id, k))])
      [] v.t = "list" ->
            List(id, [i \in DOMAIN v.l |-> Label(v.l[i], Append(id, IdxStr(i - 1)))])
      [] OTHER -> v

(* copy.deepcopy: a fresh object graph equal to v; `id` is the identity of *)
(* the new root.                                                           *)
deepcopy(v, id) == Label(v, id)

(* The identities of all containers of a value. *)
RECURSIVE Ids(_)
Ids(v) ==
    CASE v.t = "dict" -> {v.id} \cup UNION {Ids(v.m[k]) : k \in DOMAIN v.m}
      [] v.t = "list" -> {v.id} \cup UNION {Ids(v.l[i]) : i \in DOMAIN v.l}
      [] OTHER -> {}

(* Python's ==: structural, blind to identity, and True == 1, False == 0. *)
RECURSIVE PyNorm(_)
PyNorm(v) ==
    CASE v.t = "dict" -> Dict(NoId, [k \in DOMAIN v.m |-> PyNorm(v.m[k])])
      [] v.t = "list" -> List(NoId, [i \in DOMAIN v.l |-> PyNorm(v.l[i])])
      [] v.t = "bool" -> Num(IF v.b THEN 1 ELSE 0)
      [] OTHER -> v
PyEq(a, b) == PyNorm(a) = PyNorm(b)

(* `p in context` for a str context: substring test. *)
InStr(p, s) ==
    \E i \in 1..(Len(s) - Len(p) + 1) : SubSeq(s, i, i + Len(p) - 1) = p

(* The value at a location (a sequence of keys, all present) of a document *)
RECURSIVE At(_, _)
At(doc, loc) ==
    IF Len(loc) = 0 THEN doc ELSE At(doc.m[loc[1]], Tail(loc))

(* The document with the object at a location replaced (an in-place       *)
(* mutation of that object, seen from the root).                          *)
RECURSIVE ReplaceAt(_, _, _)
ReplaceAt(doc, loc, node) ==
    IF Len(loc) = 0 THEN node
    ELSE Dict(doc.id, Put(doc.m, loc[1], ReplaceAt(doc.m[loc[1]], Tail(loc), node)))

----------------------------------------------------------------------------
(* Coercion functions *)

Digits == <<"0", "1", "2", "3", "4", "5", "6", "7", "8", "9">>
IsDigit(c) == \E d \in DOMAIN Digits : Digits[d] = c
DigitVal(c) == (CHOOSE d \in DOMAIN Digits : Digits[d] = c) - 1
IsNumeral(s) == Len(s) > 0 /\ \A i \in 1..Len(s) : IsDigit(SubSeq(s, i, i))
RECURSIVE NumeralVal(_)
NumeralVal(s) ==
    IF Len(s) = 0 THEN 0
    ELSE 10 * NumeralVal(SubSeq(s, 1, Len(s) - 1)) + DigitVal(SubSeq(s, Len(s), Len(s)))

(* str(val) for a value that is not a str *)
PyStr(v) ==
    CASE v.t = "int" -> ToString(v.n)
      [] v.t = "bool" -> IF v.b THEN "True" ELSE "False"
      [] v.t = "null" -> "None"
      [] v.t = "dict" -> IF DOMAIN v.m = {} THEN "{}" ELSE "{...}"
      [] v.t = "list" -> IF Len(v.l) = 0 THEN "[]" ELSE "[...]"
      [] v.t = "obj" -> "<...>"
      [] OTHER -> v.s

to_unicode(val) ==
    IF val.t = "str" THEN Return(val, None) ELSE Return(Str(PyStr(val)), None)

(* val.encode("ascii", errors="ignore"): the characters outside ASCII go *)
RECURSIVE Ascii(_)
Ascii(s) ==
    IF Len(s) = 0 THEN ""
    ELSE IF SubSeq(s, 1, 1) = "£" THEN Ascii(SubSeq(s, 2, Len(s)))
    ELSE SubSeq(s, 1, 1) \o Ascii(SubSeq(s, 2, Len(s)))

Bytes(s) == [t |-> "bytes", s |-> s]

(* the text without the white space around it, as int() reads it *)
RECURSIVE Strip(_)
Strip(s) ==
    IF Len(s) = 0 THEN s
    ELSE IF SubSeq(s, 1, 1) = " " THEN Strip(SubSeq(s, 2, Len(s)))
    ELSE IF SubSeq(s, Len(s), Len(s)) = " " THEN Strip(SubSeq(s, 1, Len(s) - 1))
    ELSE s

Unsigned(s) ==
    IF Len(s) > 0 /\ SubSeq(s, 1, 1) \in {"-", "+"} THEN SubSeq(s, 2, Len(s)) ELSE s
IsIntLiteral(s) == IsNumeral(Unsigned(Strip(s)))
IntLiteralVal(s) ==
    IF SubSeq(Strip(s), 1, 1) = "-" THEN 0 - NumeralVal(Unsigned(Strip(s)))
    ELSE NumeralVal(Unsigned(Strip(s)))

(* intify, first step: a str is encoded to bytes, anything else is kept *)
IntifyEncoded(val) == IF val.t = "str" THEN Bytes(Ascii(val.s)) ELSE val

(* int(val) *)
IntifyDirect(val) ==
    CASE val.t = "int" -> Return(val, None)
      [] val.t = "bool" -> Return(Num(IF val.b THEN 1 ELSE 0), None)
      [] val.t = "bytes" ->
            IF IsIntLiteral(val.s) THEN Return(Num(IntLiteralVal(val.s)), None)
            ELSE Raise("ValueError", None)
      [] OTHER -> Raise("TypeError", None)

(* int(val.replace(",", "")): only bytes get here, and bytes.replace does  *)
(* not take the two str arguments                                          *)
IntifyCommas(val) == Raise("TypeError", None)

IntifyFrom(val) ==
    IF IntifyDirect(val).exc = "ValueError" THEN IntifyCommas(val) ELSE IntifyDirect(val)

(* intify *)
to_int(val) == IntifyFrom(IntifyEncoded(val))

UpperCase == "ABCDEFGHIJKLMNOPQRSTUVWXYZ"
LowerCase == "abcdefghijklmnopqrstuvwxyz"
LowerChar(c) ==
    IF \E i \in 1..Len(UpperCase) : SubSeq(UpperCase, i, i) = c
    THEN LET i == CHOOSE i \in 1..Len(UpperCase) : SubSeq(UpperCase, i, i) = c
         IN SubSeq(LowerCase, i, i)
    ELSE c

(* val.lower() *)
RECURSIVE Lower(_)
Lower(s) == IF Len(s) = 0 THEN "" ELSE LowerChar(SubSeq(s, 1, 1)) \o Lower(SubSeq(s, 2, Len(s)))

(* bool(val), the cast by truthiness that to_bool does not make *)
to_bool_truthy(val) ==
    CASE val.t = "bool" -> Return(val, None)
      [] val.t = "str" -> Return(Bool(val.s # ""), None)
      [] val.t = "int" -> Return(Bool(val.n # 0), None)
      [] val.t = "dict" -> Return(Bool(DOMAIN val.m # {}), None)
      [] val.t = "list" -> Return(Bool(Len(val.l) > 0), None)
      [] OTHER -> Return(Bool(FALSE), None)

to_bool(val) ==
    CASE val.t = "null" -> Return(None, None)
      [] val.t = "bool" -> Return(val, None)
      [] val.t = "str" ->
            IF Lower(val.s) = "true" THEN Return(Bool(TRUE), None)
            ELSE IF Lower(val.s) = "false" THEN Return(Bool(FALSE), None)
            ELSE Raise("ValueError", None)
      [] OTHER -> Raise("ValueError", None)

(* DataObj.DEFAULT_COERCE, restricted to the coercions the model uses: the *)
(* map from coercion identifier to (the name of) the coercion function.    *)
DEFAULT_COERCE == [unicode |-> "to_unicode", integer |-> "to_int", bool |-> "to_bool"]

(* cast(val) for a coercion function given by name *)
Cast(cast, val) ==
    CASE cast = "to_unicode" -> to_unicode(val)
      [] cast = "to_int" -> to_int(val)
      [] cast = "to_bool" -> to_bool(val)

(* DataObj._coerce; cast = "None" stands for cast=None *)
CoerceOutcome(r, val, accept_failure) ==
    IF r.exc = "none" THEN r
    ELSE IF accept_failure THEN Return(val, None)
    ELSE Raise("DataSchemaException", None)

_coerce(val, cast, accept_failure) ==
    IF cast = "None" THEN Return(val, None)
    ELSE CoerceOutcome(Cast(cast, val), val, accept_failure)

----------------------------------------------------------------------------
(* The path engine of DataObj.  `data` is self.data (a dict). *)

(* Keyword arguments: a function from parameter name to value. *)
Kw(kwargs, name, default) == IF name \in DOMAIN kwargs THEN kwargs[name] ELSE default
NoKw == [k \in {} |-> None]

(* _get_path with `default` handed to every context.get, the intermediate  *)
(* ones included                                                           *)
RECURSIVE _get_path_from_nodict(_, _, _, _)
_get_path_from_nodict(context, parts, i, default) ==
    IF ~IsDict(context) THEN Raise("AttributeError", None)
    ELSE LET p == parts[i]
             nxt == IF p \in DOMAIN context.m THEN context.m[p] ELSE default
         IN IF i = Len(parts) THEN Return(nxt, None)
            ELSE _get_path_from_nodict(nxt, parts, i + 1, default)

RECURSIVE _get_path_from(_, _, _, _)
_get_path_from(context, parts, i, default) ==
    IF ~IsDict(context) THEN Raise("AttributeError", None)
    ELSE LET p == parts[i]
             d == IF i < Len(parts) THEN Dict(<<"tmp">>, NoKeys) ELSE default
             nxt == IF p \in DOMAIN context.m THEN context.m[p] ELSE d
         IN IF i = Len(parts) THEN Return(nxt, None)
            ELSE _get_path_from(nxt, parts, i + 1, default)

_get_path(self_data, path, default) ==
    LET r == _get_path_from(self_data, path, 1, default)
    IN [r EXCEPT !.data = self_data]

(* The loop of _set_path from segment i on; the result's val is the        *)
(* context as the loop leaves it.                                          *)
(* _set_path that creates a missing intermediate dict but does not step    *)
(* into it                                                                 *)
RECURSIVE _set_path_from_nostep(_, _, _, _)
_set_path_from_nostep(context, parts, i, val) ==
    LET p == parts[i] IN
    IF ~IsDict(context) THEN Raise("TypeError", None)
    ELSE IF i < Len(parts) THEN
        IF p \in DOMAIN context.m THEN
            LET r == _set_path_from_nostep(context.m[p], parts, i + 1, val)
            IN IF r.exc # "none" THEN r
               ELSE Return(Dict(context.id, Put(context.m, p, r.val)), None)
        ELSE _set_path_from_nostep(
                Dict(context.id, Put(context.m, p, Dict(Append(context.id, p), NoKeys))),
                parts, i + 1, val)
    ELSE Return(Dict(context.id, Put(context.m, p, val)), None)

RECURSIVE _set_path_from(_, _, _, _)
_set_path_from(context, parts, i, val) ==
    LET p == parts[i] IN
    IF ~IsDict(context) THEN Raise("TypeError", None)
    ELSE IF i < Len(parts) THEN
        LET child == IF p \in DOMAIN context.m THEN context.m[p]
                     ELSE Dict(Append(context.id, p), NoKeys)
            r == _set_path_from(child, parts, i + 1, val)
        IN IF r.exc # "none" THEN r
           ELSE Return(Dict(context.id, Put(context.m, p, r.val)), None)
    ELSE Return(Dict(context.id, Put(context.m, p, val)), None)

_set_path(self_data, path, val) ==
    LET r == _set_path_from(self_data, path, 1, val)
    IN IF r.exc # "none" THEN Raise(r.exc, self_data) ELSE Return(None, r.val)

(* stack holds the locations of the dicts pushed by _delete. *)
RECURSIVE _prune_stack(_, _)
_prune_stack(self_data, stack) ==
    IF Len(stack) = 0 THEN self_data
    ELSE LET loc == stack[Len(stack)]
             context == At(self_data, loc)
             todelete == {k \in DOMAIN context.m : IsEmptyDict(context.m[k])}
             pruned == ReplaceAt(self_data, loc, Dict(context.id, Drop(context.m, todelete)))
         IN _prune_stack(pruned, Front(stack))

(* `p in context` *)
PyIn(p, context) ==
    CASE context.t = "dict" -> IF p \in DOMAIN context.m THEN "yes" ELSE "no"
      [] context.t = "str" -> IF InStr(p, context.s) THEN "yes" ELSE "no"
      [] context.t = "list" ->
            IF \E j \in DOMAIN context.l : PyEq(context.l[j], Str(p)) THEN "yes" ELSE "no"
      [] OTHER -> "TypeError"

(* The loop of _delete from segment i on; loc locates `context`. *)
RECURSIVE _delete_from(_, _, _, _, _, _)
_delete_from(self_data, parts, i, loc, stack, prune) ==
    IF i > Len(parts) THEN Return(None, self_data)
    ELSE LET context == At(self_data, loc)
             p == parts[i]
             found == PyIn(p, context)
         IN CASE found = "TypeError" -> Raise("TypeError", self_data)
              [] found = "no" -> _delete_from(self_data, parts, i + 1, loc, stack, prune)
              [] found = "yes" ->
                    IF ~IsDict(context) THEN Raise("TypeError", self_data)
                    ELSE IF i < Len(parts) THEN
                        _delete_from(self_data, parts, i + 1, Append(loc, p),
                                     Append(stack, Append(loc, p)), prune)
                    ELSE LET deleted == ReplaceAt(self_data, loc,
                                                  Dict(context.id, Drop(context.m, {p})))
                         IN IF prune /\ Len(stack) > 0
                            THEN Return(None, _prune_stack(deleted, Front(stack)))
                            ELSE Return(None, deleted)

_delete(self_data, path, prune) == _delete_from(self_data, path, 1, <<>>, <<>>, prune)

(* val < lower, val > upper on the model's values: defined on ints only *)
OutOfRange(val, range) ==
    IF val.t # "int" THEN "TypeError"
    ELSE IF (range.lower # None /\ val.n < range.lower.n)
              \/ (range.upper # None /\ val.n > range.upper.n)
         THEN "yes" ELSE "no"

SetSingleParams ==
    {"coerce", "allow_coerce_failure", "allowed_values", "allowed_range", "allow_none", "ignore_none"}

(* _set_single from the allowed_values check on; c is the outcome of the   *)
(* coercion and range that of the range check                              *)
SetSingleChecked(self_data, path, kwargs, c, range) ==
    IF c.exc # "none" THEN Raise(c.exc, self_data)
    ELSE IF "allowed_values" \in DOMAIN kwargs
            /\ ~(\E a \in kwargs["allowed_values"] : PyEq(a, c.val))
         THEN Raise("DataSchemaException", self_data)
    ELSE IF range = "yes" THEN Raise("DataSchemaException", self_data)
    ELSE IF range = "TypeError" THEN Raise("TypeError", self_data)
    ELSE _set_path(self_data, path, c.val)

SetSingleCoerced(self_data, path, kwargs, c) ==
    SetSingleChecked(self_data, path, kwargs, c,
        IF c.exc = "none" /\ "allowed_range" \in DOMAIN kwargs
        THEN OutOfRange(c.val, kwargs["allowed_range"]) ELSE "no")

_set_single(self_data, path, val, kwargs) ==
    IF ~(DOMAIN kwargs \subseteq SetSingleParams) THEN Raise("TypeError", self_data)
    ELSE IF val = None /\ Kw(kwargs, "ignore_none", FALSE) THEN Return(None, self_data)
    ELSE IF val = None /\ ~Kw(kwargs, "allow_none", TRUE)
         THEN Raise("DataSchemaException", self_data)
    ELSE SetSingleCoerced(self_data, path, kwargs,
            IF Kw(kwargs, "coerce", "None") # "None" /\ val # None
            THEN _coerce(val, Kw(kwargs, "coerce", "None"),
                         Kw(kwargs, "allow_coerce_failure", FALSE))
            ELSE Return(val, None))

(* [self._coerce(v, coerce, ...) for v in val]: the list of results, or    *)
(* the first exception                                                     *)
CoerceResults(rs) ==
    IF \E i \in DOMAIN rs : rs[i].exc # "none"
    THEN Raise("DataSchemaException", None)
    ELSE Return([i \in DOMAIN rs |-> rs[i].val], None)

CoerceAll(l, coerce, accept_failure) ==
    CoerceResults([i \in DOMAIN l |-> _coerce(l[i], coerce, accept_failure)])

(* the value handed back with the document a _set_single left *)
Bound(s, val) == IF s.exc # "none" THEN s ELSE Return(val, s.data)

(* _get_list once the list has been coerced to c *)
GetListCoerced(self_data, path, c, by_reference) ==
    IF c.exc # "none" THEN Raise(c.exc, self_data)
    ELSE IF by_reference
         THEN Bound(_set_single(self_data, path, List(self_data.id \o path, c.val), NoKw),
                    List(self_data.id \o path, c.val))
    ELSE Return(List(self_data.id \o path, c.val), self_data)

(* _get_list once the value at the path is known *)
GetListOf(self_data, path, g, coerce, by_reference, allow_coerce_failure) ==
    IF g.exc # "none" THEN g
    ELSE IF g.val = None /\ by_reference
         THEN Bound(_set_single(self_data, path, List(self_data.id \o path, <<>>), NoKw),
                    List(self_data.id \o path, <<>>))
    ELSE IF g.val = None THEN Return(List(<<"tmp">>, <<>>), self_data)
    ELSE IF ~IsList(g.val) THEN Raise("DataSchemaException", self_data)
    ELSE IF coerce # "None"
         THEN GetListCoerced(self_data, path,
                             CoerceAll(g.val.l, coerce, allow_coerce_failure), by_reference)
    ELSE IF by_reference THEN Return(g.val, self_data)
    ELSE Return(deepcopy(g.val, <<"copy">> \o path), self_data)

(* _get_list that takes the list for absent whatever the document holds *)
_get_list_anew(self_data, path, coerce, by_reference, allow_coerce_failure) ==
    GetListOf(self_data, path, Return(None, self_data), coerce, by_reference,
              allow_coerce_failure)

_get_list(self_data, path, coerce, by_reference, allow_coerce_failure) ==
    GetListOf(self_data, path, _get_path(self_data, path, None),
              coerce, by_reference, allow_coerce_failure)

(* removes left in ascending order *)
sort_forward(removes) == removes

(* removes.sort(reverse=True) *)
sort_reverse(removes) ==
    LET elems == {removes[i] : i \in DOMAIN removes}
    IN [i \in DOMAIN removes |->
            CHOOSE e \in elems : Cardinality({x \in elems : x > e}) = i - 1]

(* del l[r], r counted from 0 *)
DelIndex(l, r) == [i \in 1..(Len(l) - 1) |-> IF i <= r THEN l[i] ELSE l[i + 1]]

(* for r in removes: del l[r] *)
RECURSIVE DelAll(_, _)
DelAll(l, removes) ==
    IF Len(removes) = 0 THEN Return(l, None)
    ELSE IF removes[1] >= Len(l) THEN Raise("IndexError", None)
    ELSE DelAll(DelIndex(l, removes[1]), Tail(removes))

(* The test of one entry in _delete_from_list: "yes", "no" or the          *)
(* exception of entry.get on an entry that is no dict.                     *)
EntryMatches(entry, val, matchsub) ==
    IF val # None THEN (IF PyEq(entry, val) THEN "yes" ELSE "no")
    ELSE IF matchsub # None THEN
        IF DOMAIN matchsub.m = {} THEN "yes"
        ELSE IF ~IsDict(entry) THEN "AttributeError"
        ELSE IF \A k \in DOMAIN matchsub.m :
                    PyEq(IF k \in DOMAIN entry.m THEN entry.m[k] ELSE None, matchsub.m[k])
             THEN "yes" ELSE "no"
    ELSE "no"

(* the indices (from 0) of the entries to remove, in the order found *)
Removes(tests) == SelectSeq([i \in DOMAIN tests |-> i - 1], LAMBDA r : tests[r + 1] = "yes")

(* _delete_from_list once the entries have been removed from the list l *)
DeleteFromListDone(self_data, path, l, deleted, prune) ==
    IF deleted.exc # "none" THEN Raise(deleted.exc, self_data)
    ELSE IF Len(deleted.val) = 0 /\ prune
         THEN _delete(ReplaceAt(self_data, path, List(l.id, deleted.val)), path, prune)
    ELSE Return(None, ReplaceAt(self_data, path, List(l.id, deleted.val)))

(* _delete_from_list once every entry of the list l has been tested *)
DeleteFromListTested(self_data, path, l, tests, prune) ==
    IF \E i \in DOMAIN tests : tests[i] = "AttributeError"
    THEN Raise("AttributeError", self_data)
    ELSE DeleteFromListDone(self_data, path, l, DelAll(l.l, sort_reverse(Removes(tests))), prune)

(* _delete_from_list once _get_list has returned g *)
DeleteFromListOf(g, path, val, matchsub, prune) ==
    IF g.exc # "none" THEN g
    ELSE DeleteFromListTested(g.data, path, g.val,
            [i \in DOMAIN g.val.l |-> EntryMatches(g.val.l[i], val, matchsub)], prune)

_delete_from_list(self_data, path, val, matchsub, prune) ==
    DeleteFromListOf(_get_list(self_data, path, "None", TRUE, TRUE), path, val, matchsub, prune)

----------------------------------------------------------------------------
(* The path engine at work: one operation applied to a document. *)

MaxPathLen == 3
MaxListLen == 2

Keys == {"a", "b"}
Paths == UNION {[1..n -> Keys] : n \in 1..MaxPathLen}
PartialFns(K, V) == UNION {[D -> V] : D \in SUBSET K}
Dicts(V) == {Dict(NoId, m) : m \in PartialFns(Keys, V)}

(* Documents nested three deep below "a": scalars, a list and dicts (the   *)
(* empty dict among them) at every level.                                  *)
Leaves == {Str("a"), Num(1), None, List(NoId, <<Str("a")>>)}
Low == Dicts({Str("a")})
Mid == Dicts({Str("a")} \cup Low)
PathDocs ==
    {Label(Dict(NoId, m), <<"data">>) :
        m \in {f \in PartialFns(Keys, Leaves \cup Mid) :
                  "b" \in DOMAIN f => f["b"] \in Leaves \cup {Dict(NoId, NoKeys)}}}

ValuesToSet == {Str("y"), Dict(<<"v">>, NoKeys)}
Defaults == {None, Str("dflt")}

Called == call.op # "init"

InitPath ==
    /\ data \in PathDocs
    /\ raw = None
    /\ attrs = NoKeys
    /\ pre = data
    /\ call = [op |-> "init"]
    /\ ret = Return(None, None)

Get(path, default) ==
    /\ ~Called
    /\ LET r == _get_path(data, path, default)
       IN /\ data' = r.data
          /\ ret' = [r EXCEPT !.data = None]
    /\ pre' = data
    /\ raw' = raw
    /\ attrs' = attrs
    /\ call' = [op |-> "get", path |-> path, default |-> default]

Set(path, val) ==
    /\ ~Called
    /\ LET r == _set_path(data, path, val)
       IN /\ data' = r.data
          /\ ret' = [r EXCEPT !.data = None]
    /\ pre' = data
    /\ raw' = raw
    /\ attrs' = attrs
    /\ call' = [op |-> "set", path |-> path, val |-> val]

Delete(path, prune) ==
    /\ ~Called
    /\ LET r == _delete(data, path, prune)
       IN /\ data' = r.data
          /\ ret' = [r EXCEPT !.data = None]
    /\ pre' = data
    /\ raw' = raw
    /\ attrs' = attrs
    /\ call' = [op |-> "delete", path |-> path, prune |-> prune]

NextPath ==
    \/ \E path \in Paths, default \in Defaults : Get(path, default)
    \/ \E path \in Paths, val \in ValuesToSet : Set(path, val)
    \/ \E path \in Paths, prune \in BOOLEAN : Delete(path, prune)

SpecPath == InitPath /\ [][NextPath]_vars

----------------------------------------------------------------------------
(* What a path denotes in a document, stated without the engine. *)

(* Every segment of the path is a key of the dict the segments before it   *)
(* lead to.                                                                *)
RECURSIVE Has(_, _)
Has(doc, path) ==
    /\ IsDict(doc)
    /\ path[1] \in DOMAIN doc.m
    /\ Len(path) = 1 \/ Has(doc.m[path[1]], Tail(path))

Prefixes(path) == {SubSeq(path, 1, n) : n \in 1..(Len(path) - 1)}

(* An intermediate segment of the path is present and holds a value that   *)
(* is not a mapping.                                                       *)
Blocked(doc, path) == \E q \in Prefixes(path) : Has(doc, q) /\ ~IsDict(At(doc, q))

(* C6 as stated: path get never fails with an error, for every document    *)
(* and every dotted path.                                                  *)
C6_GetNeverFails == call.op = "get" => ret.exc = "none"

(* C6 as amended: path get fails (AttributeError) exactly when an          *)
(* intermediate segment of the path is present and holds a value that is   *)
(* not a mapping; otherwise it returns the value at the final segment when *)
(* the whole path is present and `default` when a segment is absent, and   *)
(* it leaves the document as it was.                                       *)
C6_GetTotalOnMappings ==
    call.op = "get" =>
        /\ data = pre
        /\ IF Blocked(pre, call.path) THEN ret.exc = "AttributeError"
           ELSE /\ ret.exc = "none"
                /\ ret.val = IF Has(pre, call.path) THEN At(pre, call.path)
                             ELSE call.default

(* C6 witness: a get through an absent intermediate segment returned the   *)
(* default.                                                                *)
C6_Witness ==
    /\ call.op = "get"
    /\ Len(call.path) = 3
    /\ ~Has(pre, SubSeq(call.path, 1, 1))
    /\ ret.exc = "none"
    /\ ret.val = call.default
    /\ call.default = Str("dflt")

(* C7 as stated: path set always succeeds, for every document, path and    *)
(* value, and a following get of the same path returns the value.          *)
C7_SetAlwaysSucceeds ==
    call.op = "set" =>
        /\ ret.exc = "none"
        /\ _get_path(data, call.path, Str("dflt")).val = call.val

(* C7 as amended: path set fails (TypeError, document unchanged) exactly   *)
(* when an intermediate segment of the path is present and holds a value   *)
(* that is not a mapping; otherwise it succeeds, every intermediate        *)
(* segment that was missing is now a mapping holding just the next         *)
(* segment, the value is at the final segment, and a following get of the  *)
(* same path returns that value.                                           *)
C7_SetThenGet ==
    call.op = "set" =>
        IF Blocked(pre, call.path) THEN ret.exc = "TypeError" /\ data = pre
        ELSE /\ ret.exc = "none"
             /\ Has(data, call.path)
             /\ At(data, call.path) = call.val
             /\ \A q \in Prefixes(call.path) :
                    ~Has(pre, q) =>
                        /\ IsDict(At(data, q))
                        /\ DOMAIN At(data, q).m = {call.path[Len(q) + 1]}
             /\ LET g == _get_path(data, call.path, Str("dflt"))
                IN g.exc = "none" /\ g.val = call.val

(* C7 witness: a set whose first intermediate segment was missing. *)
C7_Witness ==
    /\ call.op = "set"
    /\ Len(call.path) = 3
    /\ ~Has(pre, SubSeq(call.path, 1, 1))
    /\ ret.exc = "none"
    /\ At(data, call.path) = call.val

(* C8 as stated: after delete(path, prune=True) of an existing key no      *)
(* empty mapping remains on the path: every ancestor mapping the removal   *)
(* left empty has been removed.                                            *)
C8_PruneRemovesEmptyAncestors ==
    (call.op = "delete" /\ call.prune /\ Has(pre, call.path) /\ ret.exc = "none") =>
        \A q \in Prefixes(call.path) : ~(Has(data, q) /\ IsEmptyDict(At(data, q)))

----------------------------------------------------------------------------
(* delete-from-list at work: one call on a document holding a list. *)

Seqs(V, n) == UNION {[1..k -> V] : k \in 0..n}
Sub(m) == Dict(NoId, m)
Entries == {Str("x"), Str("y"), Sub([k |-> Str("x")]), Sub([k |-> Str("y")]), Sub(NoKeys)}
Lists == {List(NoId, l) : l \in Seqs(Entries, MaxListLen)}

(* The list sits at "a", at "a.b" or at "a.a.b", alone or beside another   *)
(* key; or there is no list at all.                                        *)
ListDocs ==
    {Label(d, <<"data">>) : d \in
        {Sub([a |-> l]) : l \in Lists}
        \cup {Sub([a |-> l, b |-> Str("a")]) : l \in Lists}
        \cup {Sub([a |-> Sub([b |-> l])]) : l \in Lists}
        \cup {Sub([a |-> Sub([b |-> l, a |-> Str("a")])]) : l \in Lists}
        \cup {Sub([a |-> Sub([a |-> Sub([b |-> l])])]) : l \in Lists}
        \cup {Sub(NoKeys), Sub([a |-> Str("a")]), Sub([a |-> Sub(NoKeys)]), Sub([a |-> None])}}

MatchValues == {None, Str("x"), Sub([k |-> Str("x")])}
MatchSubs == {None, Sub([k |-> Str("x")]), Sub([k |-> None]), Sub(NoKeys)}

InitList ==
    /\ data \in ListDocs
    /\ raw = None
    /\ attrs = NoKeys
    /\ pre = data
    /\ call = [op |-> "init"]
    /\ ret = Return(None, None)

DeleteFromList(path, val, matchsub, prune) ==
    /\ ~Called
    /\ LET r == _delete_from_list(data, path, val, matchsub, prune)
       IN /\ data' = r.data
          /\ ret' = [r EXCEPT !.data = None]
    /\ pre' = data
    /\ raw' = raw
    /\ attrs' = attrs
    /\ call' = [op |-> "delete_from_list", path |-> path, val |-> val,
                matchsub |-> matchsub, prune |-> prune]

NextList ==
    \E path \in Paths, val \in MatchValues, matchsub \in MatchSubs, prune \in BOOLEAN :
        DeleteFromList(path, val, matchsub, prune)

SpecList == InitList /\ [][NextList]_vars

(* The element is one the call is to remove: it equals match_value, or,    *)
(* when no match_value is given, its value for every key of                *)
(* match_submapping (None for a key it lacks) is the given one.            *)
ToRemove(entry, val, matchsub) ==
    IF val # None THEN PyEq(entry, val)
    ELSE /\ matchsub # None
         /\ \A k \in DOMAIN matchsub.m :
                PyEq(IF IsDict(entry) /\ k \in DOMAIN entry.m THEN entry.m[k] ELSE None,
                     matchsub.m[k])

(* The call is one the claim covers: the path holds a list, and a match by *)
(* submapping is made against elements that are mappings.                  *)
ListCallCovered ==
    /\ call.op = "delete_from_list"
    /\ Has(pre, call.path)
    /\ IsList(At(pre, call.path))
    /\ (call.val = None /\ call.matchsub # None /\ DOMAIN call.matchsub.m # {}) =>
            \A i \in DOMAIN At(pre, call.path).l : IsDict(At(pre, call.path).l[i])

----------------------------------------------------------------------------
(* The construct engine. *)

AddToListParams == {"coerce", "allow_coerce_failure", "allow_none", "ignore_none", "unique"}

(* _add_to_list once the list at the path has been fetched (g) *)
AddToListCurrent(g, path, val, unique) ==
    IF g.exc # "none" THEN g
    ELSE IF unique /\ \E i \in DOMAIN g.val.l : PyEq(g.val.l[i], val)
         THEN Return(None, g.data)
    ELSE Return(None, ReplaceAt(g.data, path, List(g.val.id, Append(g.val.l, val))))

(* _add_to_list that fetches the list, by reference, before it looks at    *)
(* the outcome of the coercion                                             *)
AddToListEager(self_data, path, kwargs, c) ==
    IF c.exc # "none"
    THEN Raise(c.exc, _get_list(self_data, path, "None", TRUE, TRUE).data)
    ELSE AddToListCurrent(_get_list(self_data, path, "None", TRUE, TRUE), path, c.val,
                          Kw(kwargs, "unique", FALSE))

(* _add_to_list once the value has been coerced (c) *)
AddToListCoerced(self_data, path, kwargs, c) ==
    IF c.exc # "none" THEN Raise(c.exc, self_data)
    ELSE AddToListCurrent(_get_list(self_data, path, "None", TRUE, TRUE), path, c.val,
                          Kw(kwargs, "unique", FALSE))

_add_to_list(self_data, path, val, kwargs) ==
    IF ~(DOMAIN kwargs \subseteq AddToListParams) THEN Raise("TypeError", self_data)
    ELSE IF val = None /\ Kw(kwargs, "ignore_none", TRUE) THEN Return(None, self_data)
    ELSE IF val = None /\ ~Kw(kwargs, "allow_none", FALSE)
         THEN Raise("DataSchemaException", self_data)
    ELSE AddToListCoerced(self_data, path, kwargs,
            IF Kw(kwargs, "coerce", "None") # "None"
            THEN _coerce(val, Kw(kwargs, "coerce", "None"),
                         Kw(kwargs, "allow_coerce_failure", FALSE))
            ELSE Return(val, None))

(* struct.get(member, default) *)
SGet(struct, member, default) == IF member \in DOMAIN struct THEN struct[member] ELSE default
FieldsOf(struct) == SGet(struct, "fields", NoKeys)
ObjectsOf(struct) == SGet(struct, "objects", <<>>)
ListsOf(struct) == SGet(struct, "lists", NoKeys)
RequiredOf(struct) == SGet(struct, "required", <<>>)
StructsOf(struct) == SGet(struct, "structs", NoKeys)
Elems(seq) == {seq[i] : i \in DOMAIN seq}

(* The order in which a dict hands out its keys: dicts are taken to        *)
(* iterate in the order of this list.                                      *)
KeyOrder == <<"a", "l", "m", "o", "p", "q", "z">>
Items(m) == SelectSeq(KeyOrder, LAMBDA k : k \in DOMAIN m)

StartsWith(k, prefix) == Len(k) >= Len(prefix) /\ SubSeq(k, 1, Len(prefix)) = prefix
From5(k) == SubSeq(k, 6, Len(k))

(* the name under which construct_kwargs hands on an instruction *)
KwName(dir, k) == IF StartsWith(k, dir \o "__") THEN From5(k) ELSE k

construct_kwargs(type, dir, instructions) ==
    IF instructions = None THEN NoKw
    ELSE LET kwargs == Drop(instructions,
                            IF type = "field" THEN {"coerce"}
                            ELSE IF type = "list" THEN {"coerce", "contains"} ELSE {})
             kept == IF dir = "set"
                     THEN {k \in DOMAIN kwargs : ~StartsWith(k, "get__")}
                     ELSE {k \in DOMAIN kwargs : StartsWith(k, "get__")}
         IN [n \in {KwName(dir, k) : k \in kept} |->
                kwargs[CHOOSE k \in kept : KwName(dir, k) = n]]

(* construct_data_keys, and the `allowed` list of construct *)
construct_data_keys(struct) ==
    DOMAIN FieldsOf(struct) \cup Elems(ObjectsOf(struct)) \cup DOMAIN ListsOf(struct)

(* raise DataStructureException(message): the message names what failed    *)
(* (kind), the field or key, and the context it gives                      *)
Fail(kind, name, at) ==
    [exc |-> "DataStructureException", val |-> None, data |-> None,
     kind |-> kind, name |-> name, at |-> at]

(* except DataSchemaException as e: raise DataStructureException(str(e)) *)
Wrapped(r, name) == IF r.exc = "DataSchemaException" THEN Fail("schema", name, "") ELSE r

(* c = context if context != "" else "root" *)
Where(context) == IF context = "" THEN "root" ELSE context

(* the context handed down unchanged *)
SameContext(context, field_name) == context

(* context=context + field_name + "." *)
SubContext(context, field_name) == context \o field_name \o "."

(* obj.get(field_name) *)
ObjGet(obj, field_name) == IF field_name \in DOMAIN obj.m THEN obj.m[field_name] ELSE None

(* the required fields that are no key of obj, in the order of `required` *)
MissingRequired(obj, struct) == SelectSeq(RequiredOf(struct), LAMBDA r : r \notin DOMAIN obj.m)

(* no check of the keys at all *)
AllPermitted(obj, struct) == <<>>

(* the keys of obj that are not allowed, in the order of obj.keys() *)
NotPermitted(obj, struct) ==
    SelectSeq(Items(obj.m), LAMBDA k : k \notin construct_data_keys(struct))

(* vals[i] for i in range(len(vals)) *)
IterItems(vals) ==
    CASE vals.t = "list" -> Return(vals.l, None)
      [] vals.t = "str" -> Return([i \in 1..Len(vals.s) |-> Str(SubSeq(vals.s, i, i))], None)
      [] vals.t = "dict" -> IF DOMAIN vals.m = {} THEN Return(<<>>, None)
                            ELSE Raise("KeyError", None)
      [] OTHER -> Raise("TypeError", None)

(* one turn of the loop over the fields; r.data is constructed.data *)
FieldStep(obj, instructions, coerce, context, constructed, field_name) ==
    IF ObjGet(obj, field_name) = None THEN Return(None, constructed)
    ELSE IF Kw(instructions, "coerce", "unicode") \notin DOMAIN coerce
         THEN Fail("no_coerce", field_name, context \o field_name)
    ELSE Wrapped(_set_single(constructed, <<field_name>>, ObjGet(obj, field_name),
                             Put(construct_kwargs("field", "set", instructions), "coerce",
                                 coerce[Kw(instructions, "coerce", "unicode")])),
                 field_name)

RECURSIVE ConstructFields(_, _, _, _, _, _)
ConstructFields(obj, struct, coerce, context, r, names) ==
    IF r.exc # "none" \/ Len(names) = 0 THEN r
    ELSE ConstructFields(obj, struct, coerce, context,
            FieldStep(obj, FieldsOf(struct)[names[1]], coerce, context, r.data, names[1]),
            Tail(names))

(* constructed._set_single(field_name, beneath) *)
StoreBeneath(constructed, field_name, beneath) ==
    IF beneath.exc # "none" THEN beneath
    ELSE Wrapped(_set_single(constructed, <<field_name>>, beneath.val, NoKw), field_name)

(* constructed._add_to_list(field_name, beneath) *)
AppendBeneath(constructed, field_name, beneath) ==
    IF beneath.exc # "none" THEN beneath
    ELSE Wrapped(_add_to_list(constructed, <<field_name>>, beneath.val, NoKw), field_name)

(* the loop over a list of fields *)
RECURSIVE FieldItems(_, _, _, _)
FieldItems(r, field_name, items, kwargs) ==
    IF r.exc # "none" \/ Len(items) = 0 THEN r
    ELSE FieldItems(Wrapped(_add_to_list(r.data, <<field_name>>, items[1], kwargs), field_name),
                    field_name, Tail(items), kwargs)

RECURSIVE construct(_, _, _, _, _, _)

(* one turn of the loop over the objects *)
ObjectStep(obj, struct, coerce, context, silent_prune, constructed, field_name) ==
    IF ObjGet(obj, field_name) = None THEN Return(None, constructed)
    ELSE IF ~IsDict(ObjGet(obj, field_name))
         THEN Fail("not_dict", field_name, context \o field_name)
    ELSE IF SGet(StructsOf(struct), field_name, None) = None
         THEN Wrapped(_set_single(constructed, <<field_name>>,
                                  deepcopy(ObjGet(obj, field_name),
                                           Append(constructed.id, field_name)), NoKw),
                      field_name)
    ELSE StoreBeneath(constructed, field_name,
            construct(ObjGet(obj, field_name), StructsOf(struct)[field_name], coerce,
                      SubContext(context, field_name), silent_prune,
                      Append(constructed.id, field_name)))

RECURSIVE ConstructObjects(_, _, _, _, _, _, _)
ConstructObjects(obj, struct, coerce, context, silent_prune, r, names) ==
    IF r.exc # "none" \/ Len(names) = 0 THEN r
    ELSE ConstructObjects(obj, struct, coerce, context, silent_prune,
            ObjectStep(obj, struct, coerce, context, silent_prune, r.data, names[1]),
            Tail(names))

(* one turn of the loop over a list of objects; i counts from 0 *)
ObjectItem(constructed, subinst, coerce, context, silent_prune, field_name, val, i) ==
    IF ~IsDict(val) THEN Fail("not_dict", field_name, context \o field_name \o IdxStr(i))
    ELSE IF subinst = None
         THEN Wrapped(_add_to_list(constructed, <<field_name>>,
                                   deepcopy(val, constructed.id \o <<field_name, IdxStr(i)>>),
                                   NoKw),
                      field_name)
    ELSE AppendBeneath(constructed, field_name,
            construct(val, subinst, coerce, SubContext(context, field_name \o IdxStr(i)),
                      silent_prune, constructed.id \o <<field_name, IdxStr(i)>>))

RECURSIVE ObjectItems(_, _, _, _, _, _, _, _)
ObjectItems(r, subinst, coerce, context, silent_prune, field_name, items, i) ==
    IF r.exc # "none" \/ i >= Len(items) THEN r
    ELSE ObjectItems(
            ObjectItem(r.data, subinst, coerce, context, silent_prune, field_name,
                       items[i + 1], i),
            subinst, coerce, context, silent_prune, field_name, items, i + 1)

(* the loops over the values of one list, once the values are at hand *)
ListItems(struct, instructions, coerce, context, silent_prune, constructed, field_name, items) ==
    IF items.exc # "none" THEN items
    ELSE IF Kw(instructions, "contains", "None") = "field"
         THEN FieldItems(Return(None, constructed), field_name, items.val,
                         Put(construct_kwargs("list", "set", instructions), "coerce",
                             coerce[Kw(instructions, "coerce", "unicode")]))
    ELSE ObjectItems(Return(None, constructed), SGet(StructsOf(struct), field_name, None),
                     coerce, context, silent_prune, field_name, items.val, 0)

(* one turn of the loop over the lists *)
ListStep(obj, struct, instructions, coerce, context, silent_prune, constructed, field_name) ==
    IF ObjGet(obj, field_name) = None THEN Return(None, constructed)
    ELSE IF Kw(instructions, "contains", "None") \notin {"field", "object"}
         THEN Fail("bad_contains", field_name, context \o field_name)
    ELSE IF Kw(instructions, "contains", "None") = "field"
            /\ Kw(instructions, "coerce", "unicode") \notin DOMAIN coerce
         THEN Fail("no_coerce", field_name, context \o field_name)
    ELSE ListItems(struct, instructions, coerce, context, silent_prune, constructed,
                   field_name, IterItems(ObjGet(obj, field_name)))

RECURSIVE ConstructLists(_, _, _, _, _, _, _)
ConstructLists(obj, struct, coerce, context, silent_prune, r, names) ==
    IF r.exc # "none" \/ Len(names) = 0 THEN r
    ELSE ConstructLists(obj, struct, coerce, context, silent_prune,
            ListStep(obj, struct, ListsOf(struct)[names[1]], coerce, context, silent_prune,
                     r.data, names[1]),
            Tail(names))

(* return constructed.data *)
Constructed(r) == IF r.exc # "none" THEN r ELSE Return(r.data, None)

(* nid is the identity of the dict of the new DataObj() *)
construct(obj, struct, coerce, context, silent_prune, nid) ==
    IF obj = None THEN Return(None, None)
    ELSE IF ~IsDict(obj) THEN Raise("AttributeError", None)
    ELSE IF Len(MissingRequired(obj, struct)) > 0
         THEN Fail("required", Head(MissingRequired(obj, struct)), Where(context))
    ELSE IF ~silent_prune /\ Len(NotPermitted(obj, struct)) > 0
         THEN Fail("not_permitted", Head(NotPermitted(obj, struct)), Where(context))
    ELSE Constructed(
            ConstructLists(obj, struct, coerce, context, silent_prune,
                ConstructObjects(obj, struct, coerce, context, silent_prune,
                    ConstructFields(obj, struct, coerce, context,
                                    Return(None, Dict(nid, NoKeys)),
                                    Items(FieldsOf(struct))),
                    ObjectsOf(struct)),
                Items(ListsOf(struct))))

----------------------------------------------------------------------------
(* construct(obj, struct, coerce, silent_prune=...) applied to a raw       *)
(* document that the caller keeps: `raw` is the caller's document as it is *)
(* now, `pre` the document as it was handed in, `data` what construct      *)
(* returned.  Afterwards the caller may change a container of the result.  *)

(* Schema descriptions.  No name is declared twice in one struct. *)
Inner == [fields |-> [a |-> NoKw], required |-> <<"a">>]
Nested(req) ==
    [fields |-> [a |-> NoKw], objects |-> <<"p">>, structs |-> [p |-> Inner], required |-> req]
Root(ia, il, req) ==
    [fields |-> [a |-> ia], objects |-> <<"o", "q">>,
     lists |-> [l |-> il, m |-> [contains |-> "object"]],
     required |-> req, structs |-> [o |-> Nested(req), m |-> Inner]]
FieldInstructions ==
    {NoKw, [coerce |-> "integer"], [coerce |-> "integer", allow_coerce_failure |-> TRUE]}
ListInstructions == {[contains |-> "field"], [contains |-> "field", unique |-> TRUE]}
Structs ==
    {Root(ia, il, req) : ia \in FieldInstructions, il \in ListInstructions,
                         req \in {<<>>, <<"a">>}}

(* Raw documents; "z" is a key no struct declares. *)
Opt(k, V) == {NoKeys} \cup {[x \in {k} |-> v] : v \in V}
X == Str("x")
FieldValues == {X, Num(1), None, List(NoId, <<Num(1)>>)}
ObjectValues ==
    {Sub(NoKeys), Sub([a |-> X]), Sub([a |-> X, p |-> Sub([a |-> X])]), Sub([p |-> Sub(NoKeys)]),
     Sub([a |-> X, z |-> X]), Sub([a |-> X, p |-> Sub([a |-> X, z |-> X])]), X}
FreeValues == {Sub([z |-> List(NoId, <<X>>)])}
FieldLists == {List(NoId, l) : l \in Seqs({X, None}, MaxListLen)}
ObjectLists ==
    {List(NoId, l) : l \in Seqs({Sub([a |-> X]), Sub(NoKeys), Sub([a |-> X, z |-> X])},
                                MaxListLen)}
ConstructDocs ==
    {Label(Sub(m), <<"raw">>) : m \in
        {fa @@ fo @@ fq @@ fz : fa \in Opt("a", FieldValues), fo \in Opt("o", ObjectValues),
                                fq \in Opt("q", FreeValues), fz \in Opt("z", {X})}
        \cup {fa @@ fl @@ fm @@ fz : fa \in Opt("a", {X}), fl \in Opt("l", FieldLists),
                                     fm \in Opt("m", ObjectLists), fz \in Opt("z", {X})}}

InitConstruct ==
    /\ raw \in ConstructDocs
    /\ attrs = NoKeys
    /\ pre = raw
    /\ data = None
    /\ call = [op |-> "init"]
    /\ ret = Return(None, None)

Construct(struct, silent_prune) ==
    /\ ~Called
    /\ ret' = construct(raw, struct, DEFAULT_COERCE, "", silent_prune, <<"new">>)
    /\ data' = ret'.val
    /\ pre' = raw
    /\ raw' = raw
    /\ attrs' = attrs
    /\ call' = [op |-> "construct", struct |-> struct, silent_prune |-> silent_prune]

(* The object `id` gains an entry: a dict the key "w", a list one element. *)
(* Whatever holds that object sees the change.                             *)
RECURSIVE Grow(_, _)
Grow(v, id) ==
    CASE v.t = "dict" ->
            Dict(v.id, [k \in DOMAIN v.m \cup (IF v.id = id THEN {"w"} ELSE {}) |->
                            IF k \in DOMAIN v.m THEN Grow(v.m[k], id) ELSE Str("w")])
      [] v.t = "list" ->
            List(v.id, [i \in 1..(Len(v.l) + (IF v.id = id THEN 1 ELSE 0)) |->
                            IF i <= Len(v.l) THEN Grow(v.l[i], id) ELSE Str("w")])
      [] OTHER -> v

Mutate(id) ==
    /\ call.op = "construct"
    /\ ret.exc = "none"
    /\ id \in Ids(data)
    /\ data' = Grow(data, id)
    /\ raw' = Grow(raw, id)
    /\ call' = [call EXCEPT !.op = "mutate"]
    /\ UNCHANGED <<pre, ret, attrs>>

ContainerIds == UNION {Ids(d) : d \in ConstructDocs} \cup {<<"new">> \o i : i \in
                    {<<>>, <<"o">>, <<"o", "p">>, <<"q">>, <<"q", "z">>, <<"l">>, <<"m">>}
                    \cup {<<"m", IdxStr(i)>> : i \in 0..(MaxListLen - 1)}}

NextConstruct ==
    \/ \E struct \in Structs, silent_prune \in BOOLEAN : Construct(struct, silent_prune)
    \/ \E id \in ContainerIds : Mutate(id)

SpecConstruct == InitConstruct /\ [][NextConstruct]_vars

----------------------------------------------------------------------------
(* What a struct says of a document, stated without the engine. *)

(* The levels of obj that a struct governs, each with the context that     *)
(* names it: the document itself, the dict under an object name that has a *)
(* struct, the dicts in a list of objects that has a struct.               *)
RECURSIVE Levels(_, _, _)
Levels(obj, struct, at) ==
    {[at |-> IF at = "" THEN "root" ELSE at, obj |-> obj, struct |-> struct]}
    \cup UNION {Levels(obj.m[f], StructsOf(struct)[f], at \o f \o ".") :
                  f \in {g \in Elems(ObjectsOf(struct)) \cap DOMAIN obj.m \cap DOMAIN StructsOf(struct) :
                            IsDict(obj.m[g])}}
    \cup UNION {UNION {Levels(obj.m[f].l[i], StructsOf(struct)[f],
                              at \o f \o "[" \o ToString(i - 1) \o "].") :
                         i \in {j \in DOMAIN obj.m[f].l : IsDict(obj.m[f].l[j])}} :
                  f \in {g \in DOMAIN ListsOf(struct) \cap DOMAIN obj.m \cap DOMAIN StructsOf(struct) :
                            IsList(obj.m[g]) /\ Kw(ListsOf(struct)[g], "contains", "None") = "object"}}

Declared(struct) ==
    DOMAIN FieldsOf(struct) \cup Elems(ObjectsOf(struct)) \cup DOMAIN ListsOf(struct)
Undeclared(level) == DOMAIN level.obj.m \ Declared(level.struct)
Lacking(level) == Elems(RequiredOf(level.struct)) \ DOMAIN level.obj.m

(* v is what the coercion named in the instructions makes of v *)
Coerced(v, instructions) ==
    Cast(DEFAULT_COERCE[Kw(instructions, "coerce", "unicode")], v) = Return(v, None)

(* The list holds coerced fields (no two equal where the instructions say  *)
(* unique), or dicts.                                                      *)
ListConforms(v, instructions) ==
    /\ IsList(v)
    /\ IF Kw(instructions, "contains", "None") = "field"
       THEN /\ \A i \in DOMAIN v.l : Coerced(v.l[i], instructions)
            /\ Kw(instructions, "unique", FALSE) =>
                  \A i, j \in DOMAIN v.l : PyEq(v.l[i], v.l[j]) => i = j
       ELSE \A i \in DOMAIN v.l : IsDict(v.l[i])

(* Only declared keys, the required keys present, every value in coerced   *)
(* form, at every level the struct governs.                                *)
Conforms(obj, struct) ==
    \A level \in Levels(obj, struct, "") :
        /\ Undeclared(level) = {}
        /\ Lacking(level) = {}
        /\ \A f \in DOMAIN level.obj.m :
              /\ f \in DOMAIN FieldsOf(level.struct) =>
                    Coerced(level.obj.m[f], FieldsOf(level.struct)[f])
              /\ f \in Elems(ObjectsOf(level.struct)) => IsDict(level.obj.m[f])
              /\ f \in DOMAIN ListsOf(level.struct) =>
                    ListConforms(level.obj.m[f], ListsOf(level.struct)[f])

Constructing == call.op \in {"construct", "mutate"}
JustConstructed == call.op = "construct"

(* C1: for every document that already conforms to the struct (declared    *)
(* keys only, required keys present, values in coerced form) construct     *)
(* succeeds and returns a document equal to the one handed in.             *)
C1_ConformingIsReturned ==
    JustConstructed /\ Conforms(pre, call.struct) =>
        ret.exc = "none" /\ PyEq(data, pre)

(* C2: the document construct returns has no dict or list in common with   *)
(* the document handed in, and the document handed in is the same after    *)
(* construct and after any change made to the result.                      *)
C2_ResultIsIndependent ==
    Constructing /\ ret.exc = "none" =>
        Ids(data) \cap Ids(pre) = {} /\ raw = pre

(* C3: whenever construct succeeds, at every level of the returned         *)
(* document that the struct governs every required field is present and    *)
(* every key is declared.                                                  *)
C3_ResultConforms ==
    JustConstructed /\ ret.exc = "none" =>
        \A level \in Levels(data, call.struct, "") :
            Lacking(level) = {} /\ Undeclared(level) = {}

(* the document would be accepted were its undeclared keys overlooked *)
OtherwiseValid ==
    construct(pre, call.struct, DEFAULT_COERCE, "", TRUE, <<"new">>).exc = "none"
HasUndeclared == \E level \in Levels(pre, call.struct, "") : Undeclared(level) # {}

(* C4: when the document has an undeclared key at the root or at a nested  *)
(* level reached through a nested struct (and is otherwise valid),         *)
(* construct with silent_prune=False fails with a DataStructureException,  *)
(* which names an undeclared key and the level it is at; with              *)
(* silent_prune=True it succeeds and the result has no undeclared key at   *)
(* any governed level.  silent_prune=True never gives that error.          *)
C4_UndeclaredKeys ==
    JustConstructed =>
        /\ HasUndeclared /\ ~call.silent_prune => ret.exc = "DataStructureException"
        /\ HasUndeclared /\ ~call.silent_prune /\ OtherwiseValid =>
              /\ ret.exc = "DataStructureException"
              /\ ret.kind = "not_permitted"
        /\ ret.exc = "DataStructureException" /\ ret.kind = "not_permitted" =>
              /\ ~call.silent_prune
              /\ \E level \in Levels(pre, call.struct, "") :
                    level.at = ret.at /\ ret.name \in Undeclared(level)
        /\ HasUndeclared /\ call.silent_prune /\ OtherwiseValid =>
              /\ ret.exc = "none"
              /\ \A level \in Levels(data, call.struct, "") : Undeclared(level) = {}

(* an undeclared key two levels down, in an otherwise valid document, was  *)
(* refused                                                                 *)
C4_Witness ==
    /\ JustConstructed
    /\ \E level \in Levels(pre, call.struct, "") : level.at # "root" /\ Undeclared(level) # {}
    /\ ~call.silent_prune
    /\ OtherwiseValid
    /\ ret.exc = "DataStructureException"
    /\ ret.kind = "not_permitted"
    /\ ret.at = "o.p."
    /\ ret.name = "z"

HasLacking == \E level \in Levels(pre, call.struct, "") : Lacking(level) # {}

(* C5: when a required field is absent at a level of the document,         *)
(* construct fails with a DataStructureException; the one that reports a   *)
(* required field gives as context the dotted path from the root to the    *)
(* level that lacks it ("o.", "o.p.", "m[0]."), and "root" only for the    *)
(* top level.                                                              *)
C5_RequiredContext ==
    JustConstructed =>
        /\ HasLacking => ret.exc = "DataStructureException"
        /\ ret.exc = "DataStructureException" /\ ret.kind = "required" =>
              \E level \in Levels(pre, call.struct, "") :
                  /\ level.at = ret.at
                  /\ ret.name \in Lacking(level)
                  /\ (ret.at = "root") = (level.obj.id = pre.id)

(* a field required two levels down, or in a list element, was missing *)
C5_Witness ==
    /\ JustConstructed
    /\ ret.exc = "DataStructureException"
    /\ ret.kind = "required"
    /\ ret.at \in {"o.p.", "m[1]."}
    /\ ret.name = "a"

----------------------------------------------------------------------------
(* The attribute protocol of DataObj.  `attrs` is the instance dictionary  *)
(* of the model without its "data" entry: the slots the constructor fills  *)
(* ("_struct", "_properties", "_expose_data", "_coerce_map") and whatever  *)
(* object.__setattr__ has put beside them.  A property descriptor is       *)
(* [path, wrapper], the wrapper "DataObj" or "None".                       *)

(* hasattr(self.__class__, key) *)
ClassMembers ==
    {"SCHEMA", "DEFAULT_COERCE", "validate", "custom_validate", "populate", "clone", "json",
     "get_struct"}
InternalSlots == {"_coerce_map", "_struct", "data", "_properties", "_expose_data"}

(* if self._struct: a struct that is None or empty counts as no struct *)
Truthy(struct) == struct # None /\ DOMAIN struct # {}

NotFound == Return(<<"None", None, None>>, None)

(* construct_lookup on the segments of the path; the answer is             *)
(* <<type, substruct, instructions>>                                       *)
RECURSIVE construct_lookup(_, _)
construct_lookup(bits, struct) ==
    IF struct = None THEN Raise("AttributeError", None)
    ELSE IF Len(bits) > 1
         THEN IF bits[1] \notin Elems(ObjectsOf(struct)) THEN NotFound
              ELSE construct_lookup(Tail(bits), SGet(StructsOf(struct), bits[1], None))
    ELSE IF SGet(FieldsOf(struct), bits[1], None) # None
         THEN Return(<<"field", None, FieldsOf(struct)[bits[1]]>>, None)
    ELSE IF SGet(ListsOf(struct), bits[1], None) # None
         THEN Return(<<"list", SGet(StructsOf(struct), bits[1], None), ListsOf(struct)[bits[1]]>>,
                     None)
    ELSE IF bits[1] \in Elems(ObjectsOf(struct))
         THEN Return(<<"object", SGet(StructsOf(struct), bits[1], None), None>>, None)
    ELSE NotFound

_list_dynamic_properties(self_attrs, self_data) ==
    [props |-> DOMAIN self_attrs["_properties"],
     data_attrs |->
        IF ~self_attrs["_expose_data"] THEN {}
        ELSE IF Truthy(self_attrs["_struct"]) THEN construct_data_keys(self_attrs["_struct"])
        ELSE IF IsDict(self_data) THEN DOMAIN self_data.m
        ELSE {}]

SetListParams == {"coerce", "allow_coerce_failure", "allow_none", "ignore_none"}

(* _set_list once the values are coerced (c) *)
SetListCoerced(self_data, path, kwargs, c) ==
    IF c.exc # "none" THEN Raise(c.exc, self_data)
    ELSE IF Len(c.val) = 0 /\ Kw(kwargs, "ignore_none", FALSE) THEN Return(None, self_data)
    ELSE IF Len(c.val) = 0 /\ ~Kw(kwargs, "allow_none", TRUE)
         THEN Raise("DataSchemaException", self_data)
    ELSE _set_path(self_data, path, List(self_data.id \o path, c.val))

(* _set_list once val is a list of values (vals) *)
SetListOf(self_data, path, vals, kwargs) ==
    IF (\E i \in DOMAIN vals : vals[i] = None)
       /\ ~Kw(kwargs, "allow_none", TRUE) /\ ~Kw(kwargs, "ignore_none", FALSE)
    THEN Raise("DataSchemaException", self_data)
    ELSE SetListCoerced(self_data, path, kwargs,
            CoerceAll(SelectSeq(vals, LAMBDA v : v # None \/ ~Kw(kwargs, "ignore_none", FALSE)),
                      Kw(kwargs, "coerce", "None"), Kw(kwargs, "allow_coerce_failure", FALSE)))

_set_list(self_data, path, val, kwargs) ==
    IF ~(DOMAIN kwargs \subseteq SetListParams) THEN Raise("TypeError", self_data)
    ELSE SetListOf(self_data, path, IF IsList(val) THEN val.l ELSE <<val>>, kwargs)

(* a DataObj instance: its class, document, struct and expose_data *)
Obj(cls, id, d, struct, expose_data) ==
    [t |-> "obj", cls |-> cls, id |-> id, data |-> d, struct |-> struct,
     expose_data |-> expose_data]
IsObj(v) == v.t = "obj"

(* isinstance(val, wrap) for an instance of the class cls: EPMCMetadata is *)
(* the subclass of DataObj                                                 *)
IsInstance(cls, wrap) == wrap = "DataObj" \/ cls = wrap

(* wrap(val, substruct).data once DataObj.__init__ has run construct (c):  *)
(* a DataStructureException becomes an AttributeError                      *)
Wrap(c) == IF c.exc = "DataStructureException" THEN Raise("AttributeError", None) ELSE c

(* _wrap_validate: without a wrapper the value itself, or the document of  *)
(* a facade; with a wrapper the document of a facade of that type, an      *)
(* AttributeError for any other facade, and for a raw value                *)
(* wrap(val, substruct).data, which is {} for None, the value itself       *)
(* without a substruct, and otherwise what construct makes of it.          *)
(* EPMCMetadata.__init__ takes raw alone, so wrap(val, substruct) raises.  *)
_wrap_validate(val, wrap, substruct) ==
    IF wrap = "None" THEN Return(IF IsObj(val) THEN val.data ELSE val, None)
    ELSE IF IsObj(val)
         THEN IF IsInstance(val.cls, wrap) THEN Return(val.data, None)
              ELSE Raise("AttributeError", None)
    ELSE IF wrap # "DataObj" THEN Raise("TypeError", None)
    ELSE IF val = None THEN Return(Dict(<<"wrapped">>, NoKeys), None)
    ELSE IF substruct = None THEN Return(val, None)
    ELSE Wrap(construct(val, substruct, DEFAULT_COERCE, "", FALSE, <<"wrapped">>))

(* kwargs with the coercion function the instructions name, if the map has it *)
WithCoerce(kwargs, instructions, coerce_map) ==
    IF "coerce" \in DOMAIN instructions /\ instructions["coerce"] \in DOMAIN coerce_map
    THEN Put(kwargs, "coerce", coerce_map[instructions["coerce"]])
    ELSE kwargs

(* a setter ran: True is returned unless it raised *)
WasSet(s) == IF s.exc # "none" THEN s ELSE Return(TRUE, s.data)

(* [_wrap_validate(v, wrapper, substruct) for v in value] *)
WrapResults(rs) ==
    IF \E i \in DOMAIN rs : rs[i].exc # "none"
    THEN Raise(rs[CHOOSE i \in DOMAIN rs :
                    rs[i].exc # "none" /\ \A j \in 1..(i - 1) : rs[j].exc = "none"].exc, None)
    ELSE Return([i \in DOMAIN rs |-> rs[i].val], None)

WrapAll(vals, wrap, substruct) ==
    WrapResults([i \in DOMAIN vals |-> _wrap_validate(vals[i], wrap, substruct)])

(* self._set_list(path, vals, **kwargs) on the wrapped values w *)
SetWrapped(self_data, path, w, kwargs) ==
    IF w.exc # "none" THEN Raise(w.exc, self_data)
    ELSE WasSet(_set_list(self_data, path, List(<<"vals">>, w.val), kwargs))

(* self._set_single(path, value) on the wrapped value w *)
SetValidated(self_data, path, w) ==
    IF w.exc # "none" THEN Raise(w.exc, self_data)
    ELSE WasSet(_set_single(self_data, path, w.val, NoKw))

(* _set_internal_property when the lookup gave no type *)
SetUntyped(self_attrs, self_data, path, value, wrapper) ==
    IF self_attrs["_struct"] # None THEN Return(FALSE, self_data)
    ELSE IF IsList(value)
         THEN SetWrapped(self_data, path, WrapAll(value.l, wrapper, None), NoKw)
    ELSE SetValidated(self_data, path, _wrap_validate(value, wrapper, None))

(* _set_internal_property when the lookup gave type, substruct and         *)
(* instructions; instructions.get on the None of an object raises          *)
SetTyped(self_attrs, self_data, path, value, wrapper, type, substruct, instructions) ==
    IF instructions = None THEN Raise("AttributeError", self_data)
    ELSE IF type = "field"
         THEN WasSet(_set_single(self_data, path, value,
                        WithCoerce(construct_kwargs(type, "set", instructions), instructions,
                                   self_attrs["_coerce_map"])))
    ELSE IF type = "list" /\ Kw(instructions, "contains", "None") = "field"
         THEN WasSet(_set_list(self_data, path, value,
                        WithCoerce(construct_kwargs(type, "set", instructions), instructions,
                                   self_attrs["_coerce_map"])))
    ELSE IF type = "list" /\ Kw(instructions, "contains", "None") = "object"
         THEN SetWrapped(self_data, path,
                         WrapAll(IF IsList(value) THEN value.l ELSE <<value>>, wrapper, substruct),
                         WithCoerce(construct_kwargs(type, "set", instructions), instructions,
                                    self_attrs["_coerce_map"]))
    ELSE Return(FALSE, self_data)

(* _set_internal_property once the struct has been looked up *)
SetLookedUp(self_attrs, self_data, path, value, wrapper, look) ==
    IF look.exc # "none" THEN Raise(look.exc, self_data)
    ELSE IF look.val[1] = "None" THEN SetUntyped(self_attrs, self_data, path, value, wrapper)
    ELSE SetTyped(self_attrs, self_data, path, value, wrapper,
                  look.val[1], look.val[2], look.val[3])

(* returns whether the value was set *)
_set_internal_property(self_attrs, self_data, path, value, wrapper) ==
    SetLookedUp(self_attrs, self_data, path, value, wrapper,
                IF Truthy(self_attrs["_struct"])
                THEN construct_lookup(path, self_attrs["_struct"])
                ELSE NotFound)

(* What __setattr__ leaves: the exception, the instance attributes and the *)
(* document.                                                               *)
Left(exc, self_attrs, self_data) == [exc |-> exc, attrs |-> self_attrs, data |-> self_data]

(* object.__setattr__(self, key, value) *)
object__setattr__(self_attrs, self_data, key, value) ==
    IF key = "data" THEN Left("none", self_attrs, value)
    ELSE Left("none", Put(self_attrs, key, value), self_data)

(* __setattr__ after _set_internal_property has answered (wasset) *)
SetAttrAnswered(self_attrs, self_data, key, value, wasset) ==
    IF wasset.exc # "none" THEN Left(wasset.exc, self_attrs, wasset.data)
    ELSE IF wasset.val THEN Left("none", self_attrs, wasset.data)
    ELSE object__setattr__(self_attrs, self_data, key, value)

(* __setattr__ that looks at the exposed keys before the properties *)
SetAttrDataFirst(self_attrs, self_data, key, value, dyn) ==
    IF key \in dyn.data_attrs
    THEN SetAttrAnswered(self_attrs, self_data, key, value,
            _set_internal_property(self_attrs, self_data, <<key>>, value, "DataObj"))
    ELSE IF key \in dyn.props
         THEN SetAttrAnswered(self_attrs, self_data, key, value,
                _set_internal_property(self_attrs, self_data,
                                       self_attrs["_properties"][key].path, value,
                                       self_attrs["_properties"][key].wrapper))
    ELSE object__setattr__(self_attrs, self_data, key, value)

(* __setattr__ once the dynamic properties are listed *)
SetAttrDynamic(self_attrs, self_data, key, value, dyn) ==
    IF key \in dyn.props
    THEN SetAttrAnswered(self_attrs, self_data, key, value,
            _set_internal_property(self_attrs, self_data, self_attrs["_properties"][key].path,
                                   value, self_attrs["_properties"][key].wrapper))
    ELSE IF key \in dyn.data_attrs
         THEN SetAttrAnswered(self_attrs, self_data, key, value,
                _set_internal_property(self_attrs, self_data, <<key>>, value, "DataObj"))
    ELSE object__setattr__(self_attrs, self_data, key, value)

__setattr__(self_attrs, self_data, key, value) ==
    IF key \in ClassMembers \cup InternalSlots
    THEN object__setattr__(self_attrs, self_data, key, value)
    ELSE SetAttrDynamic(self_attrs, self_data, key, value,
                        _list_dynamic_properties(self_attrs, self_data))

----------------------------------------------------------------------------
(* Reading an attribute.  A model instance that is itself a value (a       *)
(* facade handed back by a read, or a model handed to a write) is a record *)
(* of its class, its identity, its document and its configuration.         *)

(* a bound method of the class *)
Method(name) == [t |-> "method", name |-> name]

(* self.data after wrapper(raw, ...) without construction *)
RawOrEmpty(v, id) == IF v = None THEN Dict(id, NoKeys) ELSE v

(* what r hands back, beside the document d *)
Beside(r, d) == [r EXCEPT !.data = d]

GetSingleParams == {"coerce", "default", "allow_coerce_failure"}

(* _get_single once the value at the path is known (g) *)
GetSingleOf(g, kwargs) ==
    IF g.exc # "none" THEN g
    ELSE IF Kw(kwargs, "coerce", "None") # "None" /\ g.val # None
         THEN Beside(_coerce(g.val, kwargs["coerce"],
                             Kw(kwargs, "allow_coerce_failure", TRUE)), g.data)
    ELSE g

(* _get_single that never lets a failed coercion pass *)
_get_single_strict(self_data, path, kwargs) ==
    GetSingleOf(_get_path(self_data, path, Kw(kwargs, "default", None)),
                Put(kwargs, "allow_coerce_failure", FALSE))

_get_single(self_data, path, kwargs) ==
    IF ~(DOMAIN kwargs \subseteq GetSingleParams) THEN Raise("TypeError", self_data)
    ELSE GetSingleOf(_get_path(self_data, path, Kw(kwargs, "default", None)), kwargs)

GetListParams == {"coerce", "by_reference", "allow_coerce_failure"}

(* self._get_list(path, **kwargs) *)
GetListKw(self_data, path, kwargs) ==
    IF ~(DOMAIN kwargs \subseteq GetListParams) THEN Raise("TypeError", self_data)
    ELSE _get_list(self_data, path, Kw(kwargs, "coerce", "None"),
                   Kw(kwargs, "by_reference", TRUE), Kw(kwargs, "allow_coerce_failure", TRUE))

(* [wrapper(v, substruct, construct_raw=False, expose_data=...) for v in l] *)
Facades(l, wrapper, substruct, expose_data) ==
    List(<<"facades">>,
         [i \in DOMAIN l |->
            Obj(wrapper, <<"facade", IdxStr(i - 1)>>,
                RawOrEmpty(l[i], <<"facade", IdxStr(i - 1), "data">>), substruct, expose_data)])

(* the value as fetched, never wrapped *)
GetUnwrapped(self_attrs, g, wrapper) ==
    IF g.exc = "none" /\ g.val = None THEN Raise("AttributeError", g.data) ELSE g

(* _get_internal_property without a type, once the value is fetched (g) *)
GetUntyped(self_attrs, g, wrapper) ==
    IF g.exc # "none" THEN g
    ELSE IF /\ wrapper \notin {"None", "DataObj"}
            /\ (IsDict(g.val) \/ (IsList(g.val) /\ Len(g.val.l) > 0))
         THEN Raise("TypeError", g.data)
    ELSE IF wrapper # "None" /\ IsDict(g.val)
         THEN Return(Obj(wrapper, <<"facade">>, g.val, None, self_attrs["_expose_data"]), g.data)
    ELSE IF wrapper # "None" /\ IsList(g.val)
         THEN Return(Facades(g.val.l, wrapper, None, self_attrs["_expose_data"]), g.data)
    ELSE IF g.val = None THEN Raise("AttributeError", g.data)
    ELSE g

(* the list of objects is wrapped if a wrapper is given *)
GetObjects(self_attrs, l, wrapper, substruct) ==
    IF l.exc # "none" \/ wrapper = "None" THEN l
    ELSE IF wrapper # "DataObj" /\ Len(l.val.l) > 0 THEN Raise("TypeError", l.data)
    ELSE Return(Facades(l.val.l, wrapper, substruct, self_attrs["_expose_data"]), l.data)

(* _get_internal_property with a type; instructions.get on the None of an  *)
(* object raises before the object is fetched                              *)
GetTyped(self_attrs, self_data, path, wrapper, type, substruct, instructions) ==
    IF instructions = None THEN Raise("AttributeError", self_data)
    ELSE IF type = "field"
         THEN _get_single(self_data, path,
                  WithCoerce(construct_kwargs(type, "get", instructions), instructions,
                             self_attrs["_coerce_map"]))
    ELSE IF type = "list" /\ Kw(instructions, "contains", "None") = "field"
         THEN GetListKw(self_data, path,
                  WithCoerce(construct_kwargs(type, "get", instructions), instructions,
                             self_attrs["_coerce_map"]))
    ELSE IF type = "list" /\ Kw(instructions, "contains", "None") = "object"
         THEN GetObjects(self_attrs,
                  GetListKw(self_data, path,
                      WithCoerce(construct_kwargs(type, "get", instructions), instructions,
                                 self_attrs["_coerce_map"])),
                  wrapper, substruct)
    ELSE Raise("AttributeError", self_data)

GetLookedUp(self_attrs, self_data, path, wrapper, look) ==
    IF look.exc # "none" THEN Raise(look.exc, self_data)
    ELSE IF look.val[1] = "None"
         THEN GetUntyped(self_attrs, _get_single(self_data, path, NoKw), wrapper)
    ELSE GetTyped(self_attrs, self_data, path, wrapper, look.val[1], look.val[2], look.val[3])

_get_internal_property(self_attrs, self_data, path, wrapper) ==
    GetLookedUp(self_attrs, self_data, path, wrapper,
                IF Truthy(self_attrs["_struct"])
                THEN construct_lookup(path, self_attrs["_struct"])
                ELSE NotFound)

(* __getattr__ once the dynamic properties are listed *)
GetAttrDynamic(self_attrs, self_data, name, dyn) ==
    IF name \in dyn.props
    THEN _get_internal_property(self_attrs, self_data, self_attrs["_properties"][name].path,
                                self_attrs["_properties"][name].wrapper)
    ELSE IF name \in dyn.data_attrs
         THEN _get_internal_property(self_attrs, self_data, <<name>>, "DataObj")
    ELSE Raise("AttributeError", self_data)

(* called when the ordinary lookup finds nothing, so the name is no class  *)
(* member                                                                  *)
__getattr__(self_attrs, self_data, name) ==
    GetAttrDynamic(self_attrs, self_data, name, _list_dynamic_properties(self_attrs, self_data))

(* the attribute reference self.name: the instance dictionary, then the    *)
(* class, then __getattr__                                                 *)
getattr(self_attrs, self_data, name) ==
    IF name = "data" THEN Return(self_data, self_data)
    ELSE IF name \in DOMAIN self_attrs THEN Return(self_attrs[name], self_data)
    ELSE IF name \in ClassMembers THEN Return(Method(name), self_data)
    ELSE __getattr__(self_attrs, self_data, name)

(* the path a name stands for: that of its property descriptor, else the   *)
(* name itself                                                             *)
Target(self_attrs, key) ==
    IF key \in DOMAIN self_attrs["_properties"] THEN self_attrs["_properties"][key].path
    ELSE <<key>>

(* the wrapper the name is read and written with *)
WrapperOf(self_attrs, key) ==
    IF key \in DOMAIN self_attrs["_properties"] THEN self_attrs["_properties"][key].wrapper
    ELSE "DataObj"

(* the name is handed to _get_internal_property or _set_internal_property: *)
(* it is a property or an exposed key, no class member, no constructor     *)
(* slot and no attribute of the instance                                   *)
Dynamic(self_attrs, self_data, name) ==
    /\ name \notin ClassMembers \cup InternalSlots \cup DOMAIN self_attrs
    /\ \/ name \in DOMAIN self_attrs["_properties"]
       \/ name \in _list_dynamic_properties(self_attrs, self_data).data_attrs

(* what construct_lookup makes of the name on a model bound to a struct:   *)
(* "field", "list", "object", or "None"                                    *)
Resolved(self_attrs, name) ==
    IF ~Truthy(self_attrs["_struct"]) THEN "None"
    ELSE IF construct_lookup(Target(self_attrs, name), self_attrs["_struct"]).exc # "none"
    THEN "None"
    ELSE construct_lookup(Target(self_attrs, name), self_attrs["_struct"]).val[1]

(* the instructions of the field a name resolves to *)
InstructionsOf(self_attrs, name) ==
    construct_lookup(Target(self_attrs, name), self_attrs["_struct"]).val[3]

(* what the DataSchemaException of _set_single names in its message, once *)
(* the outcome of the coercion is known (c)                                *)
SetSingleNamed(kwargs, c) ==
    IF c.exc = "DataSchemaException" THEN {"cast", "value"}
    ELSE IF c.exc # "none" THEN {}
    ELSE IF "allowed_values" \in DOMAIN kwargs
            /\ ~(\E a \in kwargs["allowed_values"] : PyEq(a, c.val))
         THEN {"value", "path"}
    ELSE IF "allowed_range" \in DOMAIN kwargs /\ OutOfRange(c.val, kwargs["allowed_range"]) = "yes"
         THEN {"value", "range"}
    ELSE {}

SetSingleMessage(val, kwargs) ==
    IF val = None /\ Kw(kwargs, "ignore_none", FALSE) THEN {}
    ELSE IF val = None /\ ~Kw(kwargs, "allow_none", TRUE) THEN {"path"}
    ELSE SetSingleNamed(kwargs,
            IF Kw(kwargs, "coerce", "None") # "None" /\ val # None
            THEN _coerce(val, Kw(kwargs, "coerce", "None"),
                         Kw(kwargs, "allow_coerce_failure", FALSE))
            ELSE Return(val, None))

(* the message of the exception that the write of a field raises, as the   *)
(* set of things it names                                                  *)
SetAttrMessage(self_attrs, self_data, key, value) ==
    IF Dynamic(self_attrs, self_data, key) /\ Resolved(self_attrs, key) = "field"
    THEN SetSingleMessage(value,
            WithCoerce(construct_kwargs("field", "set", InstructionsOf(self_attrs, key)),
                       InstructionsOf(self_attrs, key), self_attrs["_coerce_map"]))
    ELSE {}

----------------------------------------------------------------------------
(* A model instance, DataObj(raw, struct, expose_data=..., properties=...),*)
(* and one attribute write on it.                                          *)

ModelStruct ==
    [fields |-> [a |-> [coerce |-> "unicode"]], objects |-> <<"o">>,
     lists |-> [l |-> [contains |-> "field", coerce |-> "unicode"],
                m |-> [contains |-> "object"]],
     structs |-> [o |-> Inner, m |-> Inner]]
(* structs of one field, a, with the instructions that reads and writes    *)
(* of a field look at                                                      *)
FieldChecks ==
    {[coerce |-> "integer"],
     [coerce |-> "integer", get__allow_coerce_failure |-> FALSE],
     [coerce |-> "integer", allowed_values |-> {Num(2)}],
     [coerce |-> "integer", allowed_range |-> [lower |-> Num(2), upper |-> None]],
     [allowed_range |-> [lower |-> None, upper |-> Num(0)]],
     [coerce |-> "unicode", allow_none |-> FALSE],
     [coerce |-> "unicode", ignore_none |-> TRUE]}
FieldStruct(instructions) == [fields |-> [a |-> instructions]]
ModelStructs == {None, ModelStruct} \cup {FieldStruct(i) : i \in FieldChecks}
Descriptor(path, wrapper) == [path |-> path, wrapper |-> wrapper]
Properties ==
    {NoKeys, [title |-> Descriptor(<<"a">>, "None")], [title |-> Descriptor(<<"z">>, "None")],
     [title |-> Descriptor(<<"o", "z">>, "DataObj")], [title |-> Descriptor(<<"o">>, "None")],
     [title |-> Descriptor(<<"m">>, "EPMCMetadata")],
     [a |-> Descriptor(<<"z">>, "None"), json |-> Descriptor(<<"a">>, "None")]}
ModelDocs ==
    {Label(d, <<"raw">>) : d \in
        {Sub(NoKeys), Sub([a |-> X]), Sub([a |-> X, o |-> Sub([a |-> X])]),
         Sub([a |-> X, l |-> List(NoId, <<X>>)]), Sub([z |-> X])}}
Names == {"a", "o", "l", "m", "z", "title", "json", "data"}
(* a facade of the class over a document of its own *)
Facade(cls) == Obj(cls, <<"f">>, Dict(<<"f", "data">>, [a |-> Str("y")]), None, FALSE)
Values ==
    {X, Num(1), None, Dict(<<"v">>, [a |-> Str("y")]), List(<<"v">>, <<X>>),
     List(<<"v">>, <<Dict(<<"v", "[0]">>, NoKeys)>>),
     Dict(<<"v">>, [l |-> List(<<"v", "l">>, <<Num(1)>>)])}
    \cup {Facade(cls) : cls \in {"DataObj", "EPMCMetadata"}}

(* self.data after __init__: raw itself, or what construct makes of it *)
AfterInit(d, struct) ==
    IF struct = None THEN Return(d, None)
    ELSE construct(d, struct, DEFAULT_COERCE, "", FALSE, <<"data">>)

InitModel ==
    /\ raw = None
    /\ \E d \in ModelDocs, struct \in ModelStructs, expose_data \in BOOLEAN,
          properties \in Properties :
          /\ \E made \in {AfterInit(d, struct)} : made.exc = "none" /\ data = made.val
          /\ attrs = [x \in {"_struct", "_properties", "_expose_data", "_coerce_map"} |->
                        CASE x = "_struct" -> struct
                          [] x = "_properties" -> properties
                          [] x = "_expose_data" -> expose_data
                          [] OTHER -> DEFAULT_COERCE]
    /\ pre = data
    /\ call = [op |-> "init"]
    /\ ret = Return(None, None)

(* what the caller of setattr gets: nothing, or the exception *)
Outcome(left) == IF left.exc = "none" THEN Return(None, None) ELSE Raise(left.exc, None)

SetAttr(key, value) ==
    /\ ~Called
    /\ \E left \in {__setattr__(attrs, data, key, value)} :
          /\ ret' = Outcome(left)
          /\ data' = left.data
          /\ attrs' = left.attrs
    /\ pre' = data
    /\ raw' = raw
    /\ call' = [op |-> "setattr", key |-> key, value |-> value, attrs |-> attrs,
                message |-> SetAttrMessage(attrs, data, key, value)]

(* a read of self.name, on the new model or after the write *)
GetAttr(name) ==
    /\ call.op \in {"init", "setattr"}
    /\ \E got \in {getattr(attrs, data, name)} :
          /\ ret' = [got EXCEPT !.data = None]
          /\ data' = got.data
    /\ attrs' = attrs
    /\ pre' = data
    /\ raw' = raw
    /\ call' = [op |-> "getattr", name |-> name, last |-> call, last_ret |-> ret]

(* a second model over the very document of the first *)
clone_shared(self_data) == Return(Obj("DataObj", <<"clone">>, self_data, None, FALSE), self_data)

(* clone: self.__class__(deepcopy(self.data)), a DataObj built from the    *)
(* copy alone, so without struct, properties or exposed data               *)
clone(self_data) ==
    Return(Obj("DataObj", <<"clone">>, RawOrEmpty(deepcopy(self_data, <<"clone">>), <<"clone">>),
               None, FALSE), self_data)

Clone ==
    /\ ~Called
    /\ \E made \in {clone(data)} :
          /\ ret' = [made EXCEPT !.data = None]
          /\ data' = made.data
    /\ pre' = data
    /\ call' = [op |-> "clone"]
    /\ UNCHANGED <<raw, attrs>>

(* a caller adds an entry to the container id, reached through the model   *)
(* or through its clone                                                    *)
MutateDocument(id) ==
    /\ call.op = "clone"
    /\ id \in Ids(data) \cup Ids(ret.val.data)
    /\ data' = Grow(data, id)
    /\ ret' = [ret EXCEPT !.val.data = Grow(@, id)]
    /\ pre' = data
    /\ call' = [op |-> "mutate", id |-> id, clone |-> ret.val.data]
    /\ UNCHANGED <<raw, attrs>>

DocumentIds ==
    UNION {Ids(d) \cup Ids(Label(d, <<"data">>)) \cup Ids(Label(d, <<"clone">>)) : d \in ModelDocs}

(* The facades a read handed back: the value itself, or the elements of    *)
(* the list.                                                               *)
FacadesIn(v) ==
    IF IsObj(v) THEN {v}
    ELSE IF IsList(v) THEN {v.l[i] : i \in {j \in DOMAIN v.l : IsObj(v.l[j])}}
    ELSE {}

(* the instance attributes of a facade made by                             *)
(* wrapper(val, substruct, construct_raw=False, expose_data=...): no       *)
(* properties, a coercion map of its own                                   *)
FacadeAttrs(o) ==
    [x \in {"_struct", "_properties", "_expose_data", "_coerce_map"} |->
        CASE x = "_struct" -> o.struct
          [] x = "_properties" -> NoKeys
          [] x = "_expose_data" -> o.expose_data
          [] OTHER -> DEFAULT_COERCE]

(* The document v once the object node (a dict or a list, by identity) has *)
(* been changed in place: whatever holds that object sees it as it is now. *)
RECURSIVE Seen(_, _)
Seen(v, node) ==
    IF node.t \notin {"dict", "list"} THEN v
    ELSE CASE v.t = "dict" ->
                IF v.id = node.id THEN node
                ELSE Dict(v.id, [k \in DOMAIN v.m |-> Seen(v.m[k], node)])
           [] v.t = "list" ->
                IF v.id = node.id THEN node
                ELSE List(v.id, [i \in DOMAIN v.l |-> Seen(v.l[i], node)])
           [] OTHER -> v

(* all containers of a value *)
RECURSIVE Nodes(_)
Nodes(v) ==
    CASE v.t = "dict" -> {v} \cup UNION {Nodes(v.m[k]) : k \in DOMAIN v.m}
      [] v.t = "list" -> {v} \cup UNION {Nodes(v.l[i]) : i \in DOMAIN v.l}
      [] OTHER -> {}

(* The object node as it is now, when the document doc still holds it; the *)
(* object as it was when doc no longer holds it.                           *)
Held(doc, node) ==
    IF node.t \notin {"dict", "list"} THEN node
    ELSE IF \E n \in Nodes(doc) : n.id = node.id THEN CHOOSE n \in Nodes(doc) : n.id = node.id
    ELSE node

(* facade.key = value, on a facade that a read of the new model handed back *)
SetThroughFacade(key, value) ==
    /\ call.op = "getattr"
    /\ call.last.op = "init"
    /\ ret.exc = "none"
    /\ \E o \in FacadesIn(ret.val) :
          \E left \in {__setattr__(FacadeAttrs(o), o.data, key, value)} :
             /\ data' = Seen(data, left.data)
             /\ call' = [op |-> "facade_setattr", name |-> call.name, facade |-> o,
                         key |-> key, value |-> value, exc |-> left.exc,
                         child |-> [attrs |-> left.attrs, data |-> left.data]]
    /\ pre' = data
    /\ UNCHANGED <<raw, attrs, ret>>

(* self.key = value on the model, while the caller holds a facade that a   *)
(* read of the model handed back                                           *)
SetBesideFacade(key, value) ==
    /\ call.op = "getattr"
    /\ call.last.op = "init"
    /\ ret.exc = "none"
    /\ \E o \in FacadesIn(ret.val) :
          \E left \in {__setattr__(attrs, data, key, value)} :
             /\ data' = left.data
             /\ attrs' = left.attrs
             /\ call' = [op |-> "parent_setattr", name |-> call.name, facade |-> o,
                         key |-> key, value |-> value, exc |-> left.exc,
                         child |-> [attrs |-> FacadeAttrs(o), data |-> Held(left.data, o.data)]]
    /\ pre' = data
    /\ UNCHANGED <<raw, ret>>

(* json.dumps(v) for a document whose strings are plain ASCII; a dict is   *)
(* written key by key in the order it hands out its keys                   *)
RECURSIVE Joined(_, _)
Joined(texts, i) ==
    IF i > Len(texts) THEN ""
    ELSE IF i = Len(texts) THEN texts[i]
    ELSE texts[i] \o ", " \o Joined(texts, i + 1)

RECURSIVE dumps(_)
dumps(v) ==
    CASE v.t = "null" -> "null"
      [] v.t = "bool" -> IF v.b THEN "true" ELSE "false"
      [] v.t = "int" -> ToString(v.n)
      [] v.t = "str" -> "\"" \o v.s \o "\""
      [] v.t = "dict" ->
            "{" \o Joined([i \in DOMAIN Items(v.m) |->
                              "\"" \o Items(v.m)[i] \o "\": " \o dumps(v.m[Items(v.m)[i]])], 1)
                \o "}"
      [] v.t = "list" -> "[" \o Joined([i \in DOMAIN v.l |-> dumps(v.l[i])], 1) \o "]"

(* DataObj.json *)
json(self_data) == dumps(self_data)

(* populate: setattr(self, k, v) for the items in turn; an exception ends  *)
(* the loop and leaves what the earlier items have set                     *)
RECURSIVE PopulateFrom(_, _, _)
PopulateFrom(left, items, i) ==
    IF i > Len(items) \/ left.exc # "none" THEN left
    ELSE PopulateFrom(__setattr__(left.attrs, left.data, items[i].k, items[i].v), items, i + 1)

populate(self_attrs, self_data, fields_and_values) ==
    PopulateFrom(Left("none", self_attrs, self_data), fields_and_values, 1)

MaxPopulate == 2
PopulateNames == {"a", "z", "title"}
PopulateValues == {X, Num(1), None}
(* the items of the mappings handed to populate: up to MaxPopulate keys    *)
PopulateItems ==
    {s \in UNION {[1..n -> [k : PopulateNames, v : PopulateValues]] : n \in 1..MaxPopulate} :
        \A i, j \in DOMAIN s : i # j => s[i].k # s[j].k}

Populate(fields_and_values) ==
    /\ ~Called
    /\ \E left \in {populate(attrs, data, fields_and_values)} :
          /\ ret' = Outcome(left)
          /\ data' = left.data
          /\ attrs' = left.attrs
    /\ pre' = data
    /\ raw' = raw
    /\ call' = [op |-> "populate", items |-> fields_and_values, attrs |-> attrs]

NextModel ==
    \/ \E key \in Names, value \in Values : SetAttr(key, value)
    \/ \E name \in Names : GetAttr(name)
    \/ Clone
    \/ \E id \in DocumentIds : MutateDocument(id)
    \/ \E key \in Names, value \in Values : SetThroughFacade(key, value)
    \/ \E key \in Names, value \in Values : SetBesideFacade(key, value)
    \/ \E fields_and_values \in PopulateItems : Populate(fields_and_values)

SpecModel == InitModel /\ [][NextModel]_vars

(* a write of a name that is no class member and no constructor slot, on a *)
(* model whose struct does not declare what the name stands for            *)
UndeclaredWrite ==
    /\ call.op = "setattr"
    /\ Truthy(call.attrs["_struct"])
    /\ call.key \notin ClassMembers \cup InternalSlots
    /\ construct_lookup(Target(call.attrs, call.key), call.attrs["_struct"]) = NotFound

(* C10: a write of a name the bound struct does not declare fails: the     *)
(* caller gets an exception, the document is as it was and no value is     *)
(* kept on the model.                                                      *)
C10_UndeclaredWriteRejected ==
    UndeclaredWrite => ret.exc # "none" /\ data = pre /\ attrs = call.attrs

(* a read of the name that was just written, on a model without a struct *)
ReadBack ==
    /\ call.op = "getattr"
    /\ call.last.op = "setattr"
    /\ call.last.key = call.name
    /\ call.last.attrs["_struct"] = None

(* the write went to an attribute of the instance (or replaced the         *)
(* document), not into the document                                        *)
KeptBeside ==
    \/ call.last.key \in ClassMembers \cup InternalSlots
    \/ /\ call.last.key \notin DOMAIN call.last.attrs["_properties"]
       /\ call.last.key \notin _list_dynamic_properties(call.last.attrs, pre).data_attrs

IsScalar(v) == v.t \in {"str", "int", "bool"}

C12_CloneIsIndependent ==
    /\ call.op = "clone" =>
          /\ ret.exc = "none"
          /\ IsObj(ret.val)
          /\ PyEq(ret.val.data, data)
          /\ data = pre
          /\ Ids(ret.val.data) \cap Ids(data) = {}
    /\ call.op = "mutate" =>
          /\ data # pre \/ ret.val.data # call.clone
          /\ data # pre => ret.val.data = call.clone
          /\ ret.val.data # call.clone => data = pre

(* an entry was added inside the document of the clone of a nested         *)
(* document, and the model's document kept its value                       *)
C12_Witness ==
    /\ call.op = "mutate"
    /\ Len(call.id) > 1
    /\ ret.val.data # call.clone
    /\ data = pre
    /\ attrs["_struct"] # None

----------------------------------------------------------------------------
(* The coercion functions, each applied once to a value *)

MaxTextLen == 3
IntAlphabet == {"1", "2", "3", "4", ",", "a", " ", "-", "£"}

RECURSIVE TextsOf(_)
TextsOf(n) ==
    IF n = 0 THEN {""} ELSE {s \o c : s \in TextsOf(n - 1), c \in IntAlphabet}

(* the spellings of a word in upper and lower case letters *)
RECURSIVE Spellings(_)
Spellings(w) ==
    IF Len(w) = 0 THEN {""}
    ELSE {c \o s : c \in {SubSeq(w, 1, 1), SubSeq(Lower(w), 1, 1)},
                   s \in Spellings(SubSeq(w, 2, Len(w)))}

Texts ==
    UNION {TextsOf(n) : n \in 0..MaxTextLen}
    \cup {"1,234", "1234", "abc", "1,2,3", "12,34", "-1,234"}
    \cup Spellings("TRUE") \cup Spellings("FALSE")
    \cup {"yes", "Yes", "no", "t", "f", "true ", "truee", "on"}

CoerceInputs ==
    {Str(s) : s \in Texts}
    \cup {Num(0), Num(1), Num(1234), Num(0 - 5), Bool(TRUE), Bool(FALSE), None}
    \cup {Dict(<<"v">>, NoKeys), Dict(<<"v">>, [a |-> Str("x")]),
          List(<<"v">>, <<>>), List(<<"v">>, <<Bool(TRUE)>>)}

InitCoerce ==
    /\ data \in CoerceInputs
    /\ raw = None
    /\ attrs = NoKeys
    /\ pre = data
    /\ call = [op |-> "init"]
    /\ ret = Return(None, None)

(* cast(val) for the coercion function named cast *)
Coerce(cast) ==
    /\ ~Called
    /\ ret' = Cast(cast, data)
    /\ call' = [op |-> "coerce", cast |-> cast]
    /\ UNCHANGED <<data, raw, pre, attrs>>

NextCoerce == \E cast \in {"to_unicode", "to_int", "to_bool"} : Coerce(cast)

SpecCoerce == InitCoerce /\ [][NextCoerce]_vars

Coerced_by(cast) == call.op = "coerce" /\ call.cast = cast

(* C13: to_int yields 1234 for "1,234", "1234" and 1234, and signals a     *)
(* conversion failure (ValueError) for "abc".                              *)
C13_IntegerChain ==
    Coerced_by("to_int") =>
        /\ data \in {Str("1,234"), Str("1234"), Num(1234)} =>
              ret.exc = "none" /\ ret.val = Num(1234)
        /\ data = Str("abc") => ret.exc = "ValueError"

(* C14 as stated: to_bool hands back a boolean unchanged, True or False    *)
(* for a string that spells true or false in any letter case, and signals  *)
(* a conversion failure for every other value, null included.              *)
C14_BoolOrFailure ==
    Coerced_by("to_bool") =>
        IF data.t = "bool" THEN ret.exc = "none" /\ ret.val = data
        ELSE IF data.t = "str" /\ Lower(data.s) \in {"true", "false"}
        THEN ret.exc = "none" /\ ret.val = Bool(Lower(data.s) = "true")
        ELSE ret.exc = "ValueError"

(* C14 amended: to_bool hands back a boolean or null unchanged, True or    *)
(* False for a string that spells true or false in any letter case, and    *)
(* signals a conversion failure (ValueError) for every other value: other  *)
(* strings, numbers, lists and mappings, whatever their truthiness.        *)
C14_BoolNullOrFailure ==
    Coerced_by("to_bool") =>
        IF data.t \in {"bool", "null"} THEN ret.exc = "none" /\ ret.val = data
        ELSE IF data.t = "str" /\ Lower(data.s) \in {"true", "false"}
        THEN ret.exc = "none" /\ ret.val = Bool(Lower(data.s) = "true")
        ELSE ret.exc = "ValueError"

(* a non-empty list was refused, not taken for True *)
C14_Witness ==
    /\ Coerced_by("to_bool")
    /\ IsList(data)
    /\ Len(data.l) > 0
    /\ ret.exc = "ValueError"

----------------------------------------------------------------------------
(* construct_merge *)

MapMembers == {"fields", "lists", "structs"}
ListMembers == {"objects", "required"}

(* the entries of source laid over those of target *)
MergeOver(t, s) == [k \in DOMAIN t \cup DOMAIN s |-> IF k \in DOMAIN s THEN s[k] ELSE t[k]]

(* merged[member][field] = deepcopy(instructions) for the fields of source *)
(* that merged[member] does not hold                                       *)
MergeMap(t, s) == [k \in DOMAIN t \cup DOMAIN s |-> IF k \in DOMAIN t THEN t[k] ELSE s[k]]

(* merged[member].append(obj) for the names of source that merged[member]  *)
(* does not hold, in the order of source                                   *)
RECURSIVE MergeList(_, _)
MergeList(t, s) ==
    IF Len(s) = 0 THEN t
    ELSE IF Head(s) \in Elems(t) THEN MergeList(t, Tail(s))
    ELSE MergeList(Append(t, Head(s)), Tail(s))

(* a member is made in merged only when source has an entry for it *)
MergedMembers(target, source) ==
    DOMAIN target \cup {k \in (MapMembers \cup ListMembers) \cap DOMAIN source :
                            DOMAIN source[k] # {}}

construct_merge(target, source) ==
    [k \in MergedMembers(target, source) |->
        CASE k \in MapMembers -> MergeMap(SGet(target, k, NoKeys), SGet(source, k, NoKeys))
          [] k \in ListMembers -> MergeList(SGet(target, k, <<>>), SGet(source, k, <<>>))
          [] OTHER -> target[k]]

U == [coerce |-> "unicode"]
I == [coerce |-> "integer"]
MergeStructs ==
    {f @@ o @@ l @@ r @@ n :
        f \in Opt("fields", {[a |-> U], [a |-> I, b |-> U], [o |-> U]}),
        o \in Opt("objects", {<<"o">>, <<"p", "o">>}),
        l \in Opt("lists", {[l |-> [contains |-> "field"]]}),
        r \in Opt("required", {<<"a">>, <<"b", "a">>}),
        n \in Opt("structs", {[o |-> Inner], [o |-> Nested(<<>>), l |-> Inner]})}

MaxMerges == 2

InitMerge ==
    /\ data \in MergeStructs
    /\ raw \in MergeStructs
    /\ attrs = NoKeys
    /\ pre = data
    /\ call = [op |-> "init", n |-> 0]
    /\ ret = Return(None, None)

(* merged = construct_merge(merged, source) *)
Merge ==
    /\ call.n < MaxMerges
    /\ data' = construct_merge(data, raw)
    /\ pre' = data
    /\ call' = [op |-> "merge", n |-> call.n + 1]
    /\ UNCHANGED <<raw, attrs, ret>>

NextMerge == Merge

SpecMerge == InitMerge /\ [][NextMerge]_vars

(* C15: the merge of source into target holds every fields, objects,       *)
(* lists, required and structs entry of target as target has it, and every *)
(* entry of source whose name the same member of target lacks, and no      *)
(* other entry; merging the same source once more changes nothing.         *)
C15_MergeIsAdditive ==
    call.op = "merge" =>
        /\ \A k \in MapMembers :
              /\ DOMAIN SGet(data, k, NoKeys) = DOMAIN SGet(pre, k, NoKeys) \cup DOMAIN SGet(raw, k, NoKeys)
              /\ \A x \in DOMAIN SGet(pre, k, NoKeys) : data[k][x] = pre[k][x]
              /\ \A x \in DOMAIN SGet(raw, k, NoKeys) \ DOMAIN SGet(pre, k, NoKeys) :
                    data[k][x] = raw[k][x]
        /\ \A k \in ListMembers :
              /\ Elems(SGet(data, k, <<>>)) = Elems(SGet(pre, k, <<>>)) \cup Elems(SGet(raw, k, <<>>))
              /\ Len(SGet(data, k, <<>>)) >= Len(SGet(pre, k, <<>>))
              /\ SubSeq(SGet(data, k, <<>>), 1, Len(SGet(pre, k, <<>>))) = SGet(pre, k, <<>>)
              /\ Len(SGet(data, k, <<>>)) = Cardinality(Elems(SGet(data, k, <<>>)))
        /\ DOMAIN data \subseteq DOMAIN pre \cup DOMAIN raw
        /\ call.n >= 2 => data = pre

(* source declares field a differently and brings field b and object p:    *)
(* a stays as target had it, b and p are added                             *)
C15_Witness ==
    /\ call.op = "merge"
    /\ call.n = 1
    /\ "fields" \in DOMAIN pre
    /\ pre["fields"] = [a |-> U]
    /\ "fields" \in DOMAIN raw
    /\ raw["fields"] = [a |-> I, b |-> U]
    /\ data["fields"] = [a |-> U, b |-> U]
    /\ SGet(pre, "objects", <<>>) = <<"o">>
    /\ SGet(data, "objects", <<>>) = <<"o", "p">>

----------------------------------------------------------------------------
(* construct_lookup, applied once to a struct and a path *)

LookupNames == {"a", "l", "m", "o", "p", "z"}
LookupPaths == UNION {[1..n -> LookupNames] : n \in 1..MaxPathLen}
LookupStructs ==
    {NoKeys, Inner, ModelStruct, Root(NoKw, [contains |-> "field"], <<>>),
     [objects |-> <<"o">>],
     [fields |-> [a |-> U], lists |-> [a |-> [contains |-> "field"], o |-> [contains |-> "object"]],
      objects |-> <<"o", "p">>, structs |-> [o |-> [objects |-> <<"p">>], p |-> Inner]]}

InitLookup ==
    /\ raw \in LookupStructs
    /\ data = None
    /\ attrs = NoKeys
    /\ pre = data
    /\ call = [op |-> "init"]
    /\ ret = Return(None, None)

Lookup(path) ==
    /\ ~Called
    /\ ret' = construct_lookup(path, raw)
    /\ call' = [op |-> "lookup", path |-> path]
    /\ UNCHANGED <<data, raw, pre, attrs>>

NextLookup == \E path \in LookupPaths : Lookup(path)

SpecLookup == InitLookup /\ [][NextLookup]_vars

(* every segment is a declared object of the struct reached before it *)
RECURSIVE AllObjects(_, _)
AllObjects(struct, bits) ==
    \/ Len(bits) = 0
    \/ /\ struct # None
       /\ bits[1] \in Elems(ObjectsOf(struct))
       /\ AllObjects(SGet(StructsOf(struct), bits[1], NoKeys), Tail(bits))

(* C16: construct_lookup fails for no struct and path: it answers with     *)
(* field, list, object or not-found; a single segment is looked for in the *)
(* fields, then the lists, then the objects; a path of several segments is *)
(* not-found unless every leading segment is a declared object.            *)
C16_LookupNeverFails ==
    call.op = "lookup" =>
        /\ ret.exc = "none"
        /\ ret.val[1] \in {"field", "list", "object", "None"}
        /\ ~AllObjects(raw, SubSeq(call.path, 1, Len(call.path) - 1)) => ret = NotFound
        /\ Len(call.path) = 1 =>
              ret.val[1] = IF call.path[1] \in DOMAIN FieldsOf(raw) THEN "field"
                           ELSE IF call.path[1] \in DOMAIN ListsOf(raw) THEN "list"
                           ELSE IF call.path[1] \in Elems(ObjectsOf(raw)) THEN "object"
                           ELSE "None"

----------------------------------------------------------------------------
(* Reads and writes through the struct of a model *)

ReadOf(type) ==
    /\ call.op = "getattr"
    /\ Dynamic(attrs, pre, call.name)
    /\ Resolved(attrs, call.name) = type

(* C17: on a model bound to a struct, the read of a name that the struct   *)
(* resolves to an object does not fail: without wrapper it hands back the  *)
(* mapping stored at the path, with a wrapper a facade over that mapping,  *)
(* bound to the nested struct and with the model's expose_data.            *)
C17_ObjectRead ==
    ReadOf("object") =>
        /\ ret.exc = "none"
        /\ WrapperOf(attrs, call.name) = "None" =>
              ret.val = _get_path(pre, Target(attrs, call.name), None).val
        /\ WrapperOf(attrs, call.name) # "None" =>
              /\ IsObj(ret.val)
              /\ ret.val.data = _get_path(pre, Target(attrs, call.name), None).val
              /\ ret.val.expose_data = attrs["_expose_data"]

(* the coercion function a read or write of the field uses, "None" for none *)
CastOf(self_attrs, name) ==
    Kw(WithCoerce(NoKw, InstructionsOf(self_attrs, name), self_attrs["_coerce_map"]),
       "coerce", "None")

(* the value kept at the path the name stands for *)
Stored(self_attrs, self_data, name) == _get_path(self_data, Target(self_attrs, name), None).val

CastFails(cast, val) == cast # "None" /\ val # None /\ Cast(cast, val).exc # "none"

(* the instructions of the field switch the tolerance of reads off *)
StrictRead(self_attrs, name) ==
    ~Kw(InstructionsOf(self_attrs, name), "get__allow_coerce_failure", TRUE)

(* C18: on a model bound to a struct, whose document is a mapping, the     *)
(* read of a name that the struct resolves to a field hands back null when *)
(* nothing is kept at the path, the coerced value when the coercion        *)
(* succeeds and the kept value when it fails; it raises only when the      *)
(* coercion fails and the instructions of the field have switched the      *)
(* tolerance of reads off.                                                 *)
C18_FieldRead ==
    ReadOf("field") /\ IsDict(pre) =>
        /\ data = pre
        /\ Stored(attrs, pre, call.name) = None => ret = Return(None, None)
        /\ CastOf(attrs, call.name) = "None" =>
              ret = Return(Stored(attrs, pre, call.name), None)
        /\ CastFails(CastOf(attrs, call.name), Stored(attrs, pre, call.name)) =>
              IF StrictRead(attrs, call.name) THEN ret.exc = "DataSchemaException"
              ELSE ret = Return(Stored(attrs, pre, call.name), None)
        /\ /\ CastOf(attrs, call.name) # "None"
           /\ Stored(attrs, pre, call.name) # None
           /\ ~CastFails(CastOf(attrs, call.name), Stored(attrs, pre, call.name))
           => ret = Return(Cast(CastOf(attrs, call.name), Stored(attrs, pre, call.name)).val, None)

(* a field kept a text that is no integer, and the tolerant read handed it *)
(* back                                                                    *)
C18_Witness ==
    /\ ReadOf("field")
    /\ IsDict(pre)
    /\ CastOf(attrs, call.name) = "to_int"
    /\ Stored(attrs, pre, call.name) = Str("y")
    /\ ret = Return(Str("y"), None)

(* the same text under instructions that switch the tolerance off: the     *)
(* read raised                                                             *)
C18_WitnessStrict ==
    /\ ReadOf("field")
    /\ IsDict(pre)
    /\ StrictRead(attrs, call.name)
    /\ ret.exc = "DataSchemaException"

WriteOf(type) ==
    /\ call.op = "setattr"
    /\ Dynamic(call.attrs, pre, call.key)
    /\ Resolved(call.attrs, call.key) = type

(* the write of the value to the field breaks an instruction of the field  *)
BreaksCheck(instructions, cast, value) ==
    \/ CastFails(cast, value)
    \/ value = None /\ ~Kw(instructions, "allow_none", TRUE)
    \/ /\ ~CastFails(cast, value)
       /\ "allowed_values" \in DOMAIN instructions
       /\ ~(\E a \in instructions["allowed_values"] :
                PyEq(a, IF cast # "None" /\ value # None THEN Cast(cast, value).val ELSE value))
    \/ /\ ~CastFails(cast, value)
       /\ value # None
       /\ "allowed_range" \in DOMAIN instructions
       /\ (IF cast # "None" THEN Cast(cast, value).val ELSE value).t = "int"
       /\ OutOfRange(IF cast # "None" THEN Cast(cast, value).val ELSE value,
                     instructions["allowed_range"]) = "yes"

DropsNone(instructions, value) == value = None /\ Kw(instructions, "ignore_none", FALSE)

(* the write of a field that breaks an instruction raises                  *)
(* DataSchemaException, with nothing written and nothing kept on the       *)
(* model; a null that the instructions tell to ignore is dropped without   *)
(* error                                                                   *)
RejectedBeforeWrite ==
    WriteOf("field") =>
        /\ DropsNone(InstructionsOf(call.attrs, call.key), call.value) =>
              ret.exc = "none" /\ data = pre
        /\ /\ ~DropsNone(InstructionsOf(call.attrs, call.key), call.value)
           /\ BreaksCheck(InstructionsOf(call.attrs, call.key), CastOf(call.attrs, call.key),
                          call.value)
           => /\ ret.exc = "DataSchemaException"
              /\ data = pre
              /\ attrs = call.attrs

(* C19: the write of a field whose value fails the coercion, is not among  *)
(* the allowed values, is outside the allowed range or is null where null  *)
(* is not allowed raises DataSchemaException with a message that names the *)
(* path and the value, and leaves the document as it was; a null that the  *)
(* instructions tell to ignore is dropped without error.                   *)
C19_FieldWriteChecked ==
    /\ RejectedBeforeWrite
    /\ /\ WriteOf("field")
       /\ ~DropsNone(InstructionsOf(call.attrs, call.key), call.value)
       /\ BreaksCheck(InstructionsOf(call.attrs, call.key), CastOf(call.attrs, call.key),
                      call.value)
       /\ call.value # None
       => {"path", "value"} \subseteq call.message

(* the write goes to a list of objects *)
WriteOfObjects ==
    /\ WriteOf("list")
    /\ Kw(InstructionsOf(call.attrs, call.key), "contains", "None") = "object"

(* the facade is of a type the wrapper of the name does not cover *)
Mismatch(self_attrs, key, value) ==
    /\ IsObj(value)
    /\ WrapperOf(self_attrs, key) # "None"
    /\ ~IsInstance(value.cls, WrapperOf(self_attrs, key))

(* a write to a list of objects: a facade of the wrapper's type has its    *)
(* document stored as the one entry of the list, a facade of another type  *)
(* is refused with nothing stored, and a mapping is stored as the one      *)
(* entry of the list                                                       *)
ObjectsWritten ==
    WriteOfObjects =>
        /\ Mismatch(call.attrs, call.key, call.value) =>
              ret.exc = "AttributeError" /\ data = pre /\ attrs = call.attrs
        /\ IsObj(call.value) /\ ~Mismatch(call.attrs, call.key, call.value) =>
              /\ ret.exc = "none"
              /\ PyEq(Stored(call.attrs, data, call.key), List(NoId, <<call.value.data>>))
        /\ IsDict(call.value) /\ WrapperOf(call.attrs, call.key) \in {"None", "DataObj"} =>
              /\ ret.exc = "none"
              /\ PyEq(Stored(call.attrs, data, call.key), List(NoId, <<call.value>>))

(* C20: on a model bound to a struct, the write of a mapping, or of a      *)
(* facade of the wrapper's type, to an object or to a list of objects      *)
(* stores the document at the path; a facade of another type is refused    *)
(* (AttributeError) and nothing is stored.                                 *)
C20_ObjectWrite ==
    /\ ObjectsWritten
    /\ WriteOf("object") =>
          /\ Mismatch(call.attrs, call.key, call.value) =>
                ret.exc = "AttributeError" /\ data = pre /\ attrs = call.attrs
          /\ IsObj(call.value) /\ ~Mismatch(call.attrs, call.key, call.value) =>
                /\ ret.exc = "none"
                /\ PyEq(Stored(call.attrs, data, call.key), call.value.data)
          /\ IsDict(call.value) /\ WrapperOf(call.attrs, call.key) \in {"None", "DataObj"} =>
                /\ ret.exc = "none"
                /\ PyEq(Stored(call.attrs, data, call.key), call.value)

----------------------------------------------------------------------------
(* The coercion maps of model instances.  `data` is here the heap of the   *)
(* coercion maps: every map object, by identity, with its entries (the     *)
(* class's DEFAULT_COERCE, the maps the caller has made, the maps the      *)
(* instances own); `attrs` is the sequence of instances made so far, each  *)
(* with the identity of its _coerce_map.                                   *)

MaxInstances == 3
MaxOverrides == 2
CoerceNames == {"unicode", "custom"}
CoerceFns == {"to_unicode", "f"}
CallerMaps == {[unicode |-> "to_unicode"], DEFAULT_COERCE}

(* __init__: self._coerce_map = coerce_map if coerce_map is not None else  *)
(* deepcopy(self.DEFAULT_COERCE); coerce_map is the identity of the map    *)
(* given, "None" for none, and self the identity of the copy made          *)
InitCoerceMap(heap, coerce_map, self) ==
    IF coerce_map # "None" THEN [heap |-> heap, _coerce_map |-> coerce_map]
    ELSE [heap |-> (self :> heap["DEFAULT_COERCE"]) @@ heap, _coerce_map |-> self]

InitInstances ==
    /\ \E m \in CallerMaps : data = [x \in {"DEFAULT_COERCE", "m"} |->
                                        IF x = "m" THEN m ELSE DEFAULT_COERCE]
    /\ attrs = <<>>
    /\ raw = None
    /\ pre = data
    /\ call = [op |-> "init", n |-> 0]
    /\ ret = Return(None, None)

(* DataObj(coerce_map=...): the argument is left out, or is a map the      *)
(* caller can reach (its own, the class's, the one of an instance)         *)
New(coerce_map) ==
    /\ Len(attrs) < MaxInstances
    /\ coerce_map \in {"None"} \cup DOMAIN data
    /\ \E made \in {InitCoerceMap(data, coerce_map, "self" \o IdxStr(Len(attrs)))} :
          /\ data' = made.heap
          /\ attrs' = Append(attrs, [_coerce_map |-> made._coerce_map])
    /\ pre' = data
    /\ call' = [op |-> "new", coerce_map |-> coerce_map, n |-> call.n]
    /\ UNCHANGED <<raw, ret>>

(* instance._coerce_map[name] = fn, on the instance number self *)
Override(self, name, fn) ==
    /\ call.n < MaxOverrides
    /\ self \in DOMAIN attrs
    /\ data' = [data EXCEPT ![attrs[self]._coerce_map] = Put(@, name, fn)]
    /\ pre' = data
    /\ call' = [op |-> "override", self |-> self, name |-> name, fn |-> fn, n |-> call.n + 1]
    /\ UNCHANGED <<raw, ret, attrs>>

NextInstances ==
    \/ \E coerce_map \in {"None", "DEFAULT_COERCE", "m", "self[0]", "self[1]"} : New(coerce_map)
    \/ \E self \in 1..MaxInstances, name \in CoerceNames, fn \in CoerceFns :
          Override(self, name, fn)

SpecInstances == InitInstances /\ [][NextInstances]_vars

(* the coercion map as the instance number i sees it *)
MapOf(heap, i) == heap[attrs[i]._coerce_map]

(* C21: an override or addition in the coercion map of one instance is     *)
(* never visible through another instance nor through the class-level      *)
(* default, whether the instances were made with the class default or      *)
(* with a coerce_map argument.                                             *)
C21_OwnCoerceMap ==
    call.op = "override" =>
        /\ data["DEFAULT_COERCE"] = pre["DEFAULT_COERCE"]
        /\ \A j \in DOMAIN attrs : j # call.self => MapOf(data, j) = MapOf(pre, j)

(* the half that holds: an instance made without coerce_map has a map of   *)
(* its own, which no override on an instance that was not handed that map  *)
(* changes                                                                 *)
DefaultCopyIsOwn ==
    call.op = "override" =>
        \A j \in DOMAIN attrs :
            attrs[j]._coerce_map # attrs[call.self]._coerce_map => MapOf(data, j) = MapOf(pre, j)

----------------------------------------------------------------------------
(* A facade and the model it was read from. *)

(* the mapping now shows value at key (a facade stands for its document, a *)
(* non-null scalar written without a struct is kept as it is)              *)
Shows(node, key, value, struct) ==
    /\ IsDict(node)
    /\ key \in DOMAIN node.m
    /\ (struct = None /\ IsScalar(value) /\ value # None) => node.m[key] = value

(* C22: a facade that the read of a nested object returned aliases the     *)
(* mapping of the parent: after a write through the facade that returned   *)
(* normally, the parent shows the written value at the same place, and     *)
(* after a write through the parent beneath the place of the facade, the   *)
(* facade shows it.                                                        *)
C22_FacadeWriteShown ==
    /\ (/\ call.op = "facade_setattr"
        /\ call.exc = "none"
        /\ IsDict(call.facade.data)
        /\ call.key \notin ClassMembers \cup InternalSlots)
       => Shows(Held(data, call.facade.data), call.key, call.value, call.facade.struct)
    /\ (/\ call.op = "parent_setattr"
        /\ call.exc = "none"
        /\ Len(Target(attrs, call.key)) = 2
        /\ Front(Target(attrs, call.key)) = Target(attrs, call.name))
       => Shows(call.child.data, Target(attrs, call.key)[2], call.value, attrs["_struct"])

(* the half that holds: the document of the facade is the object the       *)
(* parent holds, not a copy; whatever a write through the facade changes   *)
(* in the facade's document, and whatever a write through the parent       *)
(* changes beneath the place of the facade, is one change seen by both.    *)
FacadeSharesDocument ==
    /\ (call.op = "getattr" /\ call.last.op = "init" /\ ret.exc = "none" /\ IsObj(ret.val)
        /\ IsDict(ret.val.data))
       => /\ Has(data, Target(attrs, call.name))
          /\ At(data, Target(attrs, call.name)) = ret.val.data
    /\ (call.op = "facade_setattr" /\ IsObj(ret.val) /\ IsDict(ret.val.data)
        /\ call.key # "data")
       => /\ Has(data, Target(attrs, call.name))
          /\ At(data, Target(attrs, call.name)) = call.child.data
          /\ \A k \in DOMAIN call.child.data.m \ DOMAIN call.facade.data.m :
                k \in DOMAIN At(data, Target(attrs, call.name)).m
    /\ (/\ call.op = "parent_setattr"
        /\ call.exc = "none"
        /\ Len(Target(attrs, call.key)) = 2
        /\ Front(Target(attrs, call.key)) = Target(attrs, call.name))
       => Target(attrs, call.key)[2] \in DOMAIN call.child.data.m

(* a write through a facade changed the facade's document, and the parent  *)
(* shows it                                                                *)
FacadeWriteReachesParent ==
    /\ call.op = "facade_setattr"
    /\ call.exc = "none"
    /\ IsDict(call.facade.data)
    /\ call.child.data # call.facade.data
    /\ call.key # "data"
    /\ data # pre

----------------------------------------------------------------------------
(* The state of a model beside its document. *)

(* the names a write or a populate call was handed, with their values *)
Written ==
    IF call.op = "setattr" THEN {[k |-> call.key, v |-> call.value]}
    ELSE IF call.op = "populate" THEN Elems(call.items)
    ELSE {}

(* the attributes the constructor gives every model *)
ConstructorSlots == {"_struct", "_properties", "_expose_data", "_coerce_map"}

(* C23: the model holds no state outside its raw document: after attribute *)
(* writes and populate calls that returned normally, every value accepted  *)
(* for a name that is no class member and no internal slot is in the       *)
(* document at the place the name stands for and in json(), and nothing is *)
(* kept on the model object beside the document.                           *)
C23_NoShadowState ==
    (call.op \in {"setattr", "populate"} /\ ret.exc = "none")
    => /\ DOMAIN attrs = ConstructorSlots
       /\ \A w \in Written :
             (w.k \notin ClassMembers \cup InternalSlots /\ IsScalar(w.v) /\ w.v # None)
             => /\ Has(data, Target(attrs, w.k))
                /\ InStr(dumps(At(data, Target(attrs, w.k))), json(data))

(* the half that holds: a value that was accepted is in the document (and  *)
(* so in json()) or on the model object beside it, and it is beside it     *)
(* exactly when the name is no property and no exposed key, or the struct  *)
(* does not declare the place it stands for                                *)
KeptSomewhere ==
    (call.op \in {"setattr", "populate"} /\ ret.exc = "none")
    => \A w \in Written :
          (w.k \notin ClassMembers \cup InternalSlots /\ IsScalar(w.v) /\ w.v # None)
          => \/ w.k \in DOMAIN attrs /\ attrs[w.k] = w.v
             \/ /\ w.k \notin DOMAIN attrs
                /\ Has(data, Target(attrs, w.k))
                /\ InStr(dumps(At(data, Target(attrs, w.k))), json(data))

----------------------------------------------------------------------------
(* The kinds under which a schema declares a name. *)

(* the kinds (fields, objects, lists) that declare the name at this level *)
KindsOf(struct, name) ==
    {k \in {"fields", "objects", "lists"} :
        CASE k = "fields" -> name \in DOMAIN FieldsOf(struct)
          [] k = "objects" -> name \in Elems(ObjectsOf(struct))
          [] OTHER -> name \in DOMAIN ListsOf(struct)}

DeclaredAt(struct) ==
    DOMAIN FieldsOf(struct) \cup Elems(ObjectsOf(struct)) \cup DOMAIN ListsOf(struct)

(* every name is declared under at most one kind, at this level and in the *)
(* nested structs                                                          *)
RECURSIVE OneKind(_)
OneKind(struct) ==
    /\ \A name \in DeclaredAt(struct) : Cardinality(KindsOf(struct, name)) <= 1
    /\ \A n \in DOMAIN StructsOf(struct) : OneKind(StructsOf(struct)[n])

(* C24: construct_merge of two schemas in each of which every name is      *)
(* declared under at most one of fields, objects and lists at a level      *)
(* returns a schema of which the same is true.                             *)
C24_MergeKeepsOneKind ==
    (call.op = "merge" /\ OneKind(pre) /\ OneKind(raw)) => OneKind(data)

(* the half that holds: the merge declares a name under two kinds only     *)
(* when target and source declare it under different kinds                 *)
MergeOfAgreeing ==
    (/\ call.op = "merge"
     /\ OneKind(pre)
     /\ OneKind(raw)
     /\ \A name \in DeclaredAt(pre) \cap DeclaredAt(raw) :
           KindsOf(pre, name) = KindsOf(raw, name))
    => OneKind(data)

----------------------------------------------------------------------------
(* The precedence of class members, property descriptors and exposed keys. *)

(* the name is a property descriptor and an exposed key of the document at *)
(* once, and no class member, and its descriptor stands for another place  *)
BothWays(self_attrs, self_data, name) ==
    /\ name \notin ClassMembers \cup InternalSlots
    /\ name \in _list_dynamic_properties(self_attrs, self_data).props
    /\ name \in _list_dynamic_properties(self_attrs, self_data).data_attrs
    /\ Target(self_attrs, name) # <<name>>

(* the entry of the document under the name is as it was *)
SameEntry(before, after, name) ==
    /\ IsDict(after)
    /\ name \in DOMAIN before.m <=> name \in DOMAIN after.m
    /\ name \in DOMAIN before.m => after.m[name] = before.m[name]

(* C25: reads and writes resolve a name in the same order.  A class member *)
(* wins: the write is an ordinary attribute assignment that leaves the     *)
(* document alone, the read is the ordinary attribute lookup.  Otherwise a *)
(* name that is a property descriptor and an exposed key at once is        *)
(* written and read at the path of the descriptor, with its wrapper, never *)
(* at the key of that name.                                                *)
C25_Precedence ==
    /\ (call.op = "setattr" /\ call.key \in ClassMembers)
       => /\ ret.exc = "none"
          /\ data = pre
          /\ attrs = Put(call.attrs, call.key, call.value)
    /\ (call.op = "getattr" /\ call.name \in ClassMembers)
       => /\ ret.exc = "none"
          /\ ret.val = IF call.name \in DOMAIN attrs THEN attrs[call.name]
                       ELSE Method(call.name)
          /\ data = pre
    /\ (call.op = "setattr" /\ IsDict(pre) /\ BothWays(call.attrs, pre, call.key))
       => /\ SameEntry(pre, data, call.key)
          /\ (/\ ret.exc = "none"
              /\ call.key \notin DOMAIN attrs
              /\ IsScalar(call.value)
              /\ call.value # None)
             => /\ Has(data, Target(attrs, call.key))
                /\ At(data, Target(attrs, call.key)) = call.value
    /\ (/\ call.op = "getattr"
        /\ IsDict(data)
        /\ BothWays(attrs, data, call.name)
        /\ call.name \notin DOMAIN attrs)
       => /\ ret.exc = "none" <=> (/\ Has(data, Target(attrs, call.name))
                                   /\ At(data, Target(attrs, call.name)) # None)
          /\ ret.exc = "none" => ret.val = At(data, Target(attrs, call.name))
          /\ ret.exc # "none" => ret.exc = "AttributeError"

(* a write of a name that is a property and an exposed key went to the     *)
(* path of the descriptor and left the key of that name as it was          *)
C25_Witness ==
    /\ call.op = "setattr"
    /\ IsDict(pre)
    /\ BothWays(call.attrs, pre, call.key)
    /\ call.key \in DOMAIN pre.m
    /\ ret.exc = "none"
    /\ call.key \notin DOMAIN attrs
    /\ Has(data, Target(attrs, call.key))
    /\ At(data, Target(attrs, call.key)) = call.value
    /\ data.m[call.key] # call.value

(* a read of such a name after a write of it: the value at the path of the *)
(* descriptor comes back, not the one at the key                           *)
C25_WitnessRead ==
    /\ call.op = "getattr"
    /\ call.last.op = "setattr"
    /\ IsDict(data)
    /\ BothWays(attrs, data, call.name)
    /\ call.name \notin DOMAIN attrs
    /\ call.name \in DOMAIN data.m
    /\ ret.exc = "none"
    /\ ret.val # data.m[call.name]

----------------------------------------------------------------------------
(* What a delete may change. *)

(* the mapping `after` is `before` with nothing changed but what the       *)
(* delete of the path (all of whose segments are present) may change: the  *)
(* key at the path is gone, and with prune a mapping on the path that the  *)
(* removal emptied may be gone                                             *)
RECURSIVE OnlyOnPath(_, _, _, _)
OnlyOnPath(before, after, path, prune) ==
    /\ IsDict(after)
    /\ after.id = before.id
    /\ DOMAIN after.m \ {path[1]} = DOMAIN before.m \ {path[1]}
    /\ \A k \in DOMAIN before.m \ {path[1]} : after.m[k] = before.m[k]
    /\ IF Len(path) = 1 THEN path[1] \notin DOMAIN after.m
       ELSE \/ /\ path[1] \in DOMAIN after.m
               /\ OnlyOnPath(before.m[path[1]], after.m[path[1]], Tail(path), prune)
            \/ /\ path[1] \notin DOMAIN after.m
               /\ prune
               /\ \E emptied \in {Dict(before.m[path[1]].id, NoKeys)} :
                     OnlyOnPath(before.m[path[1]], emptied, Tail(path), prune)

(* C26: delete changes nothing but the key at exactly the given path and,  *)
(* with prune, the mappings on the path that became empty: when a segment  *)
(* of the path is absent the document is as it was, and no key off the     *)
(* path is removed.                                                        *)
C26_DeleteFrame ==
    (call.op = "delete" /\ ret.exc = "none")
    => IF Has(pre, call.path) THEN OnlyOnPath(pre, data, call.path, call.prune)
       ELSE data = pre

(* the half that holds: without prune, a delete of a path all of whose     *)
(* segments are present removes the key at the path and nothing else       *)
DeleteOfPresent ==
    (call.op = "delete" /\ ret.exc = "none" /\ ~call.prune /\ Has(pre, call.path))
    => OnlyOnPath(pre, data, call.path, FALSE)

----------------------------------------------------------------------------
(* What a read leaves of the document. *)

(* C27: a read never changes the raw document: after an attribute read the *)
(* document is as it was before, whether or not the name, the path or the  *)
(* list is there and whether or not a coercion is applied.                 *)
C27_ReadsLeaveDocument ==
    call.op = "getattr" => data = pre

(* the read of a name that the struct declares as a list has bound the     *)
(* list it returns at the path: an empty list where there was none, the    *)
(* coerced elements where the instructions name a coercion; nothing else   *)
(* of the document has changed                                             *)
BoundList(before, after, path, instructions) ==
    /\ Has(after, path)
    /\ IsList(At(after, path))
    /\ after = _set_path(before, path, At(after, path)).data
    /\ IF ~Has(before, path) \/ At(before, path) = None THEN At(after, path).l = <<>>
       ELSE /\ IsList(At(before, path))
            /\ "coerce" \in DOMAIN instructions
            /\ At(after, path).l =
                  [i \in DOMAIN At(before, path).l |->
                     _coerce(At(before, path).l[i], DEFAULT_COERCE[instructions["coerce"]],
                             TRUE).val]

(* C27 (amended): a read leaves the raw document as it was, except that    *)
(* the read of a name declared as a list binds the list it returns: an     *)
(* absent list is created empty at the path, and a list with a coercion is *)
(* replaced by the list of its coerced elements.                           *)
C27_ReadsBindListsOnly ==
    call.op = "getattr"
    => \/ data = pre
       \/ /\ Dynamic(attrs, pre, call.name)
          /\ Resolved(attrs, call.name) = "list"
          /\ ret.exc = "none"
          /\ BoundList(pre, data, Target(attrs, call.name), InstructionsOf(attrs, call.name))

(* a read of a list that the document lacks: the read creates it *)
C27_Witness ==
    /\ call.op = "getattr"
    /\ Dynamic(attrs, pre, call.name)
    /\ Resolved(attrs, call.name) = "list"
    /\ ret.exc = "none"
    /\ ~Has(pre, Target(attrs, call.name))
    /\ Has(data, Target(attrs, call.name))
    /\ At(data, Target(attrs, call.name)).l = <<>>

(* a read of a list with a coercion: the coerced elements are stored *)
C27_WitnessCoerced ==
    /\ call.op = "getattr"
    /\ Resolved(attrs, call.name) = "list"
    /\ Has(pre, Target(attrs, call.name))
    /\ ~PyEq(data, pre)

(* a read of a field with a coercion, and of a field that is absent: the   *)
(* document is as it was                                                   *)
C27_WitnessField ==
    /\ call.op = "getattr"
    /\ Dynamic(attrs, pre, call.name)
    /\ Resolved(attrs, call.name) = "field"
    /\ "coerce" \in DOMAIN InstructionsOf(attrs, call.name)
    /\ ret.exc = "none"
    /\ data = pre

----------------------------------------------------------------------------
(* The setters at work: one call of _set_single, _set_list or _add_to_list *)
(* on a document, with the keyword arguments that make them check.         *)

SetterValues == {Num(1), None, List(<<"v">>, <<Num(1), Str("y")>>)}
SetterKwargs ==
    {NoKw, [coerce |-> "to_int"], [allow_none |-> FALSE],
     [coerce |-> "to_int", allowed_range |-> [lower |-> Num(2), upper |-> None]]}
ListKwargs == {NoKw, [coerce |-> "to_int"]}
AdderKwargs == {NoKw, [coerce |-> "to_int"], [ignore_none |-> FALSE]}

InitSetters ==
    /\ data \in PathDocs
    /\ raw = None
    /\ attrs = NoKeys
    /\ pre = data
    /\ call = [op |-> "init"]
    /\ ret = Return(None, None)

SetSingle(path, val, kwargs) ==
    /\ ~Called
    /\ \E r \in {_set_single(data, path, val, kwargs)} :
          /\ data' = r.data
          /\ ret' = [r EXCEPT !.data = None]
    /\ pre' = data
    /\ call' = [op |-> "_set_single", path |-> path, val |-> val, kwargs |-> kwargs]
    /\ UNCHANGED <<raw, attrs>>

SetList(path, val, kwargs) ==
    /\ ~Called
    /\ \E r \in {_set_list(data, path, val, kwargs)} :
          /\ data' = r.data
          /\ ret' = [r EXCEPT !.data = None]
    /\ pre' = data
    /\ call' = [op |-> "_set_list", path |-> path, val |-> val, kwargs |-> kwargs]
    /\ UNCHANGED <<raw, attrs>>

AddToList(path, val, kwargs) ==
    /\ ~Called
    /\ \E r \in {_add_to_list(data, path, val, kwargs)} :
          /\ data' = r.data
          /\ ret' = [r EXCEPT !.data = None]
    /\ pre' = data
    /\ call' = [op |-> "_add_to_list", path |-> path, val |-> val, kwargs |-> kwargs]
    /\ UNCHANGED <<raw, attrs>>

NextSetters ==
    \/ \E path \in Paths, val \in SetterValues, kwargs \in SetterKwargs :
          SetSingle(path, val, kwargs)
    \/ \E path \in Paths, val \in SetterValues, kwargs \in ListKwargs :
          SetList(path, val, kwargs)
    \/ \E path \in Paths, val \in SetterValues, kwargs \in AdderKwargs :
          AddToList(path, val, kwargs)

SpecSetters == InitSetters /\ [][NextSetters]_vars

(* C28: when a setter raises, the raw document is exactly as it was before *)
(* the call: no intermediate mapping and no list has been created, no list *)
(* partly written and no earlier value replaced.                           *)
C28_FailedSetterLeavesDocument ==
    (call.op \in {"_set_single", "_set_list", "_add_to_list"} /\ ret.exc # "none")
    => data = pre

(* a setter raised on a value it had to check, at a path whose             *)
(* intermediate mappings and whose list the document lacks                 *)
C28_Witness ==
    /\ call.op = "_add_to_list"
    /\ ret.exc = "DataSchemaException"
    /\ Len(call.path) > 1
    /\ ~Has(pre, <<call.path[1]>>)
    /\ data = pre

(* a setter raised on its way through the document, at a segment that      *)
(* holds no mapping                                                        *)
C28_WitnessBlocked ==
    /\ call.op \in {"_set_single", "_set_list"}
    /\ ret.exc = "TypeError"
    /\ Blocked(pre, call.path)
    /\ data = pre

(* attribute writes are checked on the model instances: a write that       *)
(* raises leaves the document and the instance as they were                *)
FailedWriteLeavesModel ==
    (call.op = "setattr" /\ ret.exc # "none") => data = pre /\ attrs = call.attrs

----------------------------------------------------------------------------
(* The configuration of a clone. *)

(* DataObj.get_struct *)
get_struct(self_attrs) == self_attrs["_struct"]

(* the same reads are answered or refused on the model and on its clone *)
SameReads(self_attrs, self_data, clone_attrs, clone_data) ==
    \A name \in Names :
        getattr(self_attrs, self_data, name).exc = getattr(clone_attrs, clone_data, name).exc

(* C29: the clone has the configuration of the original: the same struct   *)
(* from get_struct(), the same property descriptors, expose-data policy    *)
(* and coercion identifiers, so that the same reads are accepted or        *)
(* rejected on both.                                                       *)
C29_CloneKeepsConfiguration ==
    call.op = "clone"
    => /\ get_struct(FacadeAttrs(ret.val)) = get_struct(attrs)
       /\ FacadeAttrs(ret.val)["_properties"] = attrs["_properties"]
       /\ FacadeAttrs(ret.val)["_expose_data"] = attrs["_expose_data"]
       /\ DOMAIN FacadeAttrs(ret.val)["_coerce_map"] = DOMAIN attrs["_coerce_map"]
       /\ SameReads(attrs, data, FacadeAttrs(ret.val), ret.val.data)

(* the half that holds: the clone of a model made from a document alone    *)
(* (no struct, no properties, data not exposed) has its configuration      *)
CloneOfPlainModel ==
    (/\ call.op = "clone"
     /\ get_struct(attrs) = None
     /\ attrs["_properties"] = NoKeys
     /\ ~attrs["_expose_data"])
    => /\ FacadeAttrs(ret.val) = attrs
       /\ SameReads(attrs, data, FacadeAttrs(ret.val), ret.val.data)

(***************************************************************************)
(* StoreLocal (modules/store/store.py): the local blob store.              *)
(* In this specification `data` is the directory tree under self.dir: a    *)
(* function from the names of the directories in it to, for each, the      *)
(* function from the names of the files in it to their content.  `raw` is  *)
(* what the callers have done: for each container stored into and not      *)
(* deleted as a whole since, the target names stored into it and not       *)
(* deleted since.  `attrs` holds self.dir, `pre` the tree before the call. *)
(* Container ids and target names are plain names, without separators.     *)
(***************************************************************************)
MaxStoreOps == 3

Containers == {"c1", "c2"}

Targets == {"t1", "t2"}

(* the files outside the store that a source_path can name *)
SourceFiles == [p |-> "x"]

(* source_path / source_stream of a call to store(): neither, a path that  *)
(* names a file, a path that names none, a stream with content, a stream   *)
(* that is at its end                                                      *)
Sources ==
    { [source_path |-> "None", source_stream |-> "None"],
      [source_path |-> "p", source_stream |-> "None"],
      [source_path |-> "missing", source_stream |-> "None"],
      [source_path |-> "None", source_stream |-> "y"],
      [source_path |-> "None", source_stream |-> ""] }

(* os.makedirs(cpath) when cpath does not exist *)
makedirs(tree, container_id) ==
    IF container_id \in DOMAIN tree THEN tree
    ELSE [c \in DOMAIN tree \cup {container_id} |->
            IF c = container_id THEN NoKeys ELSE tree[c]]

(* the file tpath written (created or replaced) with the content *)
WriteFile(tree, container_id, target_name, content) ==
    [tree EXCEPT ![container_id] =
        [t \in DOMAIN tree[container_id] \cup {target_name} |->
            IF t = target_name THEN content ELSE tree[container_id][t]]]

(* StoreLocal.store: the container directory is made first; then the file  *)
(* is copied from source_path, or written from what source_stream reads    *)
(* (open() creates it even when the first read is empty); with neither     *)
(* source no file is written                                               *)
store(tree, container_id, target_name, source) ==
    IF source.source_path # "None"
    THEN IF source.source_path \in DOMAIN SourceFiles
         THEN Return(None, WriteFile(makedirs(tree, container_id), container_id,
                                     target_name, SourceFiles[source.source_path]))
         ELSE Raise("FileNotFoundError", makedirs(tree, container_id))
    ELSE IF source.source_stream # "None"
    THEN Return(None, WriteFile(makedirs(tree, container_id), container_id,
                                target_name, source.source_stream))
    ELSE Return(None, makedirs(tree, container_id))

(* StoreLocal.exists: os.path.exists(cpath) and os.path.isdir(cpath) *)
exists(tree, container_id) == container_id \in DOMAIN tree

(* the names a listing holds, in no order *)
Listing(names) == [t |-> "names", s |-> names]

(* StoreLocal.list: os.listdir(cpath), which raises when cpath is absent *)
list(tree, container_id) ==
    IF container_id \in DOMAIN tree
    THEN Return(Listing(DOMAIN tree[container_id]), tree)
    ELSE Raise("FileNotFoundError", tree)

(* StoreLocal.get: the file opened for reading (here: its content) when    *)
(* the path is a file, None otherwise                                      *)
get(tree, container_id, target_name) ==
    IF container_id \in DOMAIN tree /\ target_name \in DOMAIN tree[container_id]
    THEN Return(Str(tree[container_id][target_name]), tree)
    ELSE Return(None, tree)

(* StoreLocal.delete: os.remove of the target file, shutil.rmtree of the   *)
(* container when target_name is None; nothing when the path is absent     *)
delete(tree, container_id, target_name) ==
    IF container_id \notin DOMAIN tree THEN Return(None, tree)
    ELSE IF target_name = "None"
    THEN Return(None, [c \in DOMAIN tree \ {container_id} |-> tree[c]])
    ELSE IF target_name \in DOMAIN tree[container_id]
    THEN Return(None, [tree EXCEPT ![container_id] =
                        [t \in DOMAIN tree[container_id] \ {target_name} |->
                            tree[container_id][t]]])
    ELSE Return(None, tree)

(* what the callers have stored, after a store() that returned *)
StoredAfter(done, container_id, target_name) ==
    [c \in DOMAIN done \cup {container_id} |->
        IF c = container_id
        THEN (IF c \in DOMAIN done THEN done[c] ELSE {}) \cup {target_name}
        ELSE done[c]]

(* what the callers have stored, after a delete() *)
DeletedAfter(done, container_id, target_name) ==
    IF container_id \notin DOMAIN done THEN done
    ELSE IF target_name = "None"
    THEN [c \in DOMAIN done \ {container_id} |-> done[c]]
    ELSE [done EXCEPT ![container_id] = @ \ {target_name}]

(* the target names stored into the container and not deleted since *)
StoredIn(done, container_id) ==
    IF container_id \in DOMAIN done THEN done[container_id] ELSE {}

InitStore ==
    /\ data = [c \in {} |-> NoKeys]
    /\ raw = [c \in {} |-> {}]
    /\ pre = [c \in {} |-> NoKeys]
    /\ attrs = [dir |-> "STORE_LOCAL_DIR"]
    /\ call = [op |-> "init", n |-> 0]
    /\ ret = Return(None, [c \in {} |-> NoKeys])

StoreQuery(op, container_id, target_name, r) ==
    /\ call' = [op |-> op, container_id |-> container_id,
                target_name |-> target_name, n |-> call.n]
    /\ ret' = r
    /\ pre' = data
    /\ UNCHANGED <<data, raw, attrs>>

StoreInto(container_id, target_name, source) ==
    /\ call.n < MaxStoreOps
    /\ \E r \in {store(data, container_id, target_name, source)} :
        /\ data' = r.data
        /\ ret' = r
        /\ raw' = IF r.exc = "none" THEN StoredAfter(raw, container_id, target_name) ELSE raw
    /\ pre' = data
    /\ call' = [op |-> "store", container_id |-> container_id,
                target_name |-> target_name, source |-> source, n |-> call.n + 1]
    /\ UNCHANGED attrs

DeleteFrom(container_id, target_name) ==
    /\ call.n < MaxStoreOps
    /\ \E r \in {delete(data, container_id, target_name)} :
        /\ data' = r.data
        /\ ret' = r
    /\ raw' = DeletedAfter(raw, container_id, target_name)
    /\ pre' = data
    /\ call' = [op |-> "delete", container_id |-> container_id,
                target_name |-> target_name, n |-> call.n + 1]
    /\ UNCHANGED attrs

ExistsContainer(container_id) ==
    StoreQuery("exists", container_id, "None",
               Return(Bool(exists(data, container_id)), data))

ListContainer(container_id) ==
    StoreQuery("list", container_id, "None", list(data, container_id))

GetFrom(container_id, target_name) ==
    StoreQuery("get", container_id, target_name, get(data, container_id, target_name))

NextStore ==
    \/ \E c \in Containers, t \in Targets, source \in Sources : StoreInto(c, t, source)
    \/ \E c \in Containers, t \in Targets \cup {"None"} : DeleteFrom(c, t)
    \/ \E c \in Containers : ExistsContainer(c)
    \/ \E c \in Containers : ListContainer(c)
    \/ \E c \in Containers, t \in Targets : GetFrom(c, t)

SpecStore == InitStore /\ [][NextStore]_vars

(* a delete changes the tree as the statement says: of a target, that file *)
(* alone; of a container, that directory with all its files                *)
DeleteFrame ==
    call.op = "delete"
    => /\ \A c \in Containers \ {call.container_id} :
            /\ exists(data, c) <=> exists(pre, c)
            /\ exists(pre, c) => data[c] = pre[c]
       /\ call.target_name = "None" => ~exists(data, call.container_id)
       /\ (call.target_name # "None" /\ exists(pre, call.container_id))
            => /\ exists(data, call.container_id)
               /\ DOMAIN data[call.container_id]
                    = DOMAIN pre[call.container_id] \ {call.target_name}
               /\ \A t \in DOMAIN data[call.container_id] :
                    data[call.container_id][t] = pre[call.container_id][t]
       /\ (call.target_name # "None" /\ ~exists(pre, call.container_id))
            => ~exists(data, call.container_id)

(* C30: after any sequence of store and delete operations, exists(c) is    *)
(* true exactly when c has been stored into and not deleted as a whole     *)
(* since, list(c) is exactly the set of target names stored into c and not *)
(* deleted since, get(c, t) returns content exactly for the listed         *)
(* targets, delete(c, t) removes only t and delete(c) removes the          *)
(* container with all its targets.                                         *)
C30_StoreRefinesAbstract ==
    /\ call.op = "exists" => (ret.val = Bool(TRUE) <=> call.container_id \in DOMAIN raw)
    /\ call.op = "list" => ret = Return(Listing(StoredIn(raw, call.container_id)), data)
    /\ call.op = "get"
        => (ret.val # None <=> call.target_name \in StoredIn(raw, call.container_id))
    /\ DeleteFrame

(* the half that holds: every container stored into exists, every listed   *)
(* target has been stored and not deleted since, get() returns content     *)
(* exactly for the targets that list() of an existing container names, and *)
(* delete() removes what the statement says and nothing else               *)
StoreWithinAbstract ==
    /\ \A c \in DOMAIN raw : exists(data, c)
    /\ \A c \in DOMAIN raw : DOMAIN data[c] \subseteq raw[c]
    /\ call.op = "list"
        => (ret.exc = "none" <=> exists(data, call.container_id))
    /\ call.op = "get"
        => (ret.val # None
            <=> /\ exists(data, call.container_id)
                /\ call.target_name \in list(data, call.container_id).val.s)
    /\ DeleteFrame

(* a listing that differs from what was stored: a store() without a source *)
(* has returned and the target is not listed                               *)
StoredAndNotListed ==
    /\ call.op = "list"
    /\ ret.exc = "none"
    /\ ret.val # Listing(StoredIn(raw, call.container_id))

(* a listing asked of a container deleted as a whole is refused *)
ListingOfDeletedRefused ==
    /\ call.op = "list"
    /\ ret.exc = "FileNotFoundError"
    /\ call.n > 1

====
